---- MODULE Spec2Model ----
(***************************************************************************)
(* Verification model of the sandbox provisioning engine                   *)
(* (scripts/snapshot/engine.py and scripts/snapshot-pvelxc.py).            *)
(*                                                                         *)
(* Eight specifications share this module, each over its own group of       *)
(* variables (the other groups stay at their initial value):               *)
(*   SpecGraph  the layered task-graph runner                              *)
(*   SpecExec   one ctx.run call through the exec transports               *)
(*   SpecProv   one workspace through provision / verify / templatize      *)
(*   SpecOrch   orchestrator runs over the preset list and the manifest    *)
(*   SpecFile   the manifest file as text: write, process stop, load       *)
(*   SpecUpload the upload-repo task: git-diff path and full upload        *)
(*   SpecPush   one http_push_file call: base64 chunks over http_exec      *)
(*   SpecReg    a TaskRegistry being filled and rendered as a tree         *)
(***************************************************************************)
EXTENDS Integers, Sequences, FiniteSets, TLC

(***************************************************************************)
(* Bounds                                                                  *)
(***************************************************************************)
MaxTasks == 3
MaxDeps == 2
MaxEvents == 2
MaxRuns == 2
MaxUpdates == 2
MaxPolls == 2
MaxBytes == 4
ChunkGroups == 1

Names == 1..MaxTasks

VARIABLES
    \* ---- task graph runner (run_task_graph / run_pve_task_graph) ----
    registry,     \* TaskRegistry._tasks: name -> dependencies
    remaining,    \* names still in the runner's working copy
    completed,    \* names of completed tasks
    ready,        \* the layer being awaited by asyncio.gather
    status,       \* per task body: "pending" | "running" | "ok" | "failed"
    startCount,   \* how many times each task body was started
    layers,       \* the layers scheduled so far, in order
    gpc,          \* runner position: "loop" | "gather" | "done" | "cycle" | "raised"
    inflight,     \* tasks whose exec on the workspace is outstanding
    unresolved,   \* the names listed by the "Dependency cycle detected" error
    timings,      \* the labels of the entries added to ctx.timings
    run_no,       \* the number of the current run on this registry object
    executions,   \* per task: how often its body was started, over all runs
    cleaned,      \* the orchestrator's failure cleanup has deleted the workspace
    late_calls    \* tasks whose worker thread sent a request after that cleanup

graphVars == <<registry, remaining, completed, ready, status, startCount, layers, gpc, inflight,
              unresolved, timings, run_no, executions,
              cleaned, late_calls>>

VARIABLES
    \* ---- one ctx.run call (PveTaskContext._run_pct_exec) ----
    cf_domain,          \* PveLxcClient.cf_domain is set
    ssh_host_explicit,  \* PveLxcClient._ssh_host_explicit
    http_host_cached,   \* PveLxcClient._http_host_ids holds the workspace's host id
    attempts,           \* _run_pct_exec: attempts
    xpc,                \* position: "idle" | "attempt" | "http" | "fallback" | "except" | "result" | "done"
    httpLog,            \* what http_exec observed, one entry per exec_in_container call
    events,             \* the event stream read by the latest http_exec call
    sshLog,             \* what ssh_exec observed, one entry per pct_exec call
    via,                \* transport the current attempt last used: "none" | "http" | "ssh"
    result,             \* returncode of the CompletedProcess held, or None
    exc,                \* exception in flight in _run_pct_exec, or "none"
    httpSends,          \* HTTP exec requests issued for this command
    sshSends,           \* pct exec invocations issued for this command
    cmdStarts,          \* times the command was started on the workspace
    outcome             \* how ctx.run ended: [kind, code]

execVars == <<cf_domain, ssh_host_explicit, http_host_cached, attempts, xpc, httpLog, events, sshLog,
              via, result, exc, httpSends, sshSends, cmdStarts, outcome>>

VARIABLES
    \* ---- one workspace: provision_and_create_template / update_existing_template ----
    mode,                \* "full" (provision_and_snapshot) | "update" (update_existing_template)
    run_tasks,           \* provision_and_create_template(run_tasks=...)
    is_template,         \* update mode: the source is a template and gets cloned
    cleanup_on_failure,  \* args.cleanup_on_failure
    ppc,                 \* position in the flow
    ws,                  \* provider state of the workspace
    created_containers,  \* VMIDs cloned in this run
    graphRan,            \* run_pve_task_graph was called on the workspace
    checked,             \* verifier checks made so far
    missing,             \* len(missing) in _verify_template_artifacts
    seen,                \* kinds of bad check observations made so far
    verified,            \* "no" | "passed" | "raised"
    convertRequested,    \* convert_to_template was requested for the workspace
    manifestEntry,       \* a version entry for the workspace was written to the manifest
    perr,                \* the exception that left the flow, or "none"
    probe_seen,          \* kinds of probe observations made by detect_toolchains
    active_registry,     \* update mode: "none" | "update" | "full"
    has_snapshots,       \* the workspace carries snapshots at the provider
    shutdown_exit,       \* exitstatus of the awaited shutdown task, or "none"
    client_cf_domain,    \* client.cf_domain is set (PVE_PUBLIC_DOMAIN)
    polls,               \* elapsed, in poll intervals, in wait_for_container_ready
    container_running,   \* wait_for_container_ready saw the status "running"
    echo_ok,             \* an `echo ready` exec of the wait returned exit code 0
    wait_result          \* "none" | "returned" | "TimeoutError"

provVars == <<mode, run_tasks, is_template, cleanup_on_failure, ppc, ws, created_containers,
              probe_seen, active_registry,
              graphRan, checked, missing, seen, verified, convertRequested, manifestEntry, perr,
              has_snapshots, shutdown_exit, client_cf_domain, polls, container_running, echo_ok,
              wait_result>>

VARIABLES
    \* ---- orchestrator runs: provision_and_snapshot, the manifest file ----
    args,                    \* the run's arguments: the two shapes and cleanup_on_failure
    manifest_file,           \* contents of PVE_SNAPSHOT_MANIFEST_PATH: [exists, presets]
    manifest,                \* the manifest held in memory by the run: its presets list
    opc,                     \* position of the run
    runs,                    \* orchestrator runs started so far
    okRuns,                  \* provision_and_snapshot runs that completed
    updateRuns,              \* update_existing_template runs that completed
    index,                   \* enumerate(preset_plans): 1-based position of the preset
    call,                    \* the current provision_and_create_template call
    run_created_containers,  \* provision_and_snapshot: created_containers
    results,                 \* provision_and_snapshot: results
    last_template_vmid,      \* provision_and_snapshot: last_template_vmid (0 is None)
    last_template_disk_mib,  \* provision_and_snapshot: last_template_disk_mib
    used_vmids,              \* VMIDs that exist on the node
    raised,                  \* the exception in flight, or "none"
    cleanup_pos,             \* position of `for vmid in created_containers` in the handler
    calls,                   \* the provision_and_create_template calls of this run, in order
    shutdownLog,             \* cleanup shutdown requests of this run: [vmid, ok]
    deleteLog,               \* delete requests of this run, in order
    file_at_start,           \* the manifest file as this run's _load_manifest found it
    exit_status              \* how main() ended: "none" | "0" | "1" | "interrupt"

orchVars == <<args, manifest_file, manifest, opc, runs, okRuns, updateRuns, index, call, run_created_containers,
              results, last_template_vmid, last_template_disk_mib, used_vmids, raised, cleanup_pos,
              calls, shutdownLog, deleteLog, file_at_start, exit_status>>

VARIABLES
    \* ---- the manifest file as text: _write_manifest, _load_manifest ----
    path,          \* PVE_SNAPSHOT_MANIFEST_PATH: [exists, text]
    mem,           \* the manifest document the process holds
    written,       \* the document the latest _write_manifest was called with
    before_write,  \* the file as it was when that call began
    fpc            \* position: "start" | "loaded" | "updated" | "writing" | "written" |
                   \*           "stopped" | "reloaded" | "raised"

fileVars == <<path, mem, written, before_write, fpc>>

VARIABLES
    \* ---- the upload-repo task (task_upload_repo / upload_repo_via_diff) ----
    use_diff,        \* get_git_diff_mode()
    repo,            \* the local checkout: [remote_url, current_branch, upstream_commit]
    upc,             \* position in the task
    attempt,         \* clone attempt number
    clone_outcome,   \* "none" | "ok" | "failed" | "raised"
    diff_success,    \* what upload_repo_via_diff returned: "none" | "True" | "False"
    full_upload,     \* steps of the full upload made so far, in order
    uerr             \* the exception that left the task, or "none"

uploadVars == <<use_diff, repo, upc, attempt, clone_outcome, diff_success, full_upload, uerr>>

VARIABLES
    \* ---- one http_push_file call ----
    local_file,      \* the bytes of the local file
    b64_data,        \* base64.b64encode(file_data)
    offset,          \* the loop variable of the chunk loop
    remote_file,     \* the bytes of the remote target file
    hpc,             \* position in http_push_file
    push_returned    \* "none" | "True" | "False" | "raised"

pushVars == <<local_file, b64_data, offset, remote_file, hpc, push_returned>>

VARIABLES
    \* ---- a TaskRegistry being filled, then rendered ----
    reg_tasks,       \* TaskRegistry._tasks: name -> dependencies
    last_name,       \* the name of the last registry.task(...) call, 0 before the first
    reg_raised,      \* what that call raised: "none" | "ValueError"
    rpc,             \* "registering" | "formatted"
    graph_lines      \* the lines format_dependency_graph returned

regVars == <<reg_tasks, last_name, reg_raised, rpc, graph_lines>>

vars == <<graphVars, execVars, provVars, orchVars, fileVars, uploadVars, pushVars, regVars>>

(***************************************************************************)
(* Task graph runner                                                       *)
(***************************************************************************)

\* The dependency tuples a task may be registered with.
DepSets == {D \in SUBSET Names : Cardinality(D) <= MaxDeps}

\* Every registry over the bounded name space: a mapping from a set of
\* registered names to their dependency sets (dependency names are not
\* validated at registration).
Registries == UNION {[T -> DepSets] : T \in SUBSET Names}

\* TaskRegistry.tasks: a copy of the mapping; the runner works on its key set.
tasks(reg) == DOMAIN reg

\* ready = [name for name, task in remaining.items()
\*          if all(dep in completed for dep in task.dependencies)]
ReadyAny(reg, rem, done) == {n \in rem : reg[n] = {} \/ \E dep \in reg[n] : dep \in done}
ReadyOf(reg, rem, done) == {n \in rem : \A dep \in reg[n] : dep \in done}

\* for task in tasks_to_run: completed.add(task.name); remaining.pop(task.name)
PopLayer(rem, layer) == rem \ layer

\* `unresolved = ", ".join(remaining)`: the keys of the working copy in
\* registration order (names are numbered in registration order), each once.
RECURSIVE InOrder(_)
InOrder(S) ==
    IF S = {} THEN <<>>
    ELSE LET first == CHOOSE n \in S : \A m \in S : n <= m
         IN <<first>> \o InOrder(S \ {first})
JoinedFirstOnly(rem) == IF rem = {} THEN <<>> ELSE <<InOrder(rem)[1]>>
Joined(rem) == InOrder(rem)

\* The diamond A -> {B, C} -> D.
Diamond == <<{}, {1}, {1}, {2, 3}>>

\* ctx.timings.add(f"task:{name}", ...) / ctx.timings.add(f"layer:{'+'.join(ready)}", ...):
\* the label of an entry (the order of the entries is not kept).
TimingLabel(kind, names) == [kind |-> kind, names |-> names]

\* `remaining = registry.tasks` is `dict(self._tasks)`, a copy: popping a
\* completed layer from `remaining` leaves the registry's own mapping alone.
RegistryAfterPopShared(reg, layer) == [n \in DOMAIN reg \ layer |-> reg[n]]
RegistryAfterPop(reg, layer) == reg

InitGraphVars ==
    /\ registry \in Registries \cup {Diamond}
    /\ remaining = tasks(registry)
    /\ completed = {}
    /\ ready = {}
    /\ status = [n \in tasks(registry) |-> "pending"]
    /\ startCount = [n \in tasks(registry) |-> 0]
    /\ layers = <<>>
    /\ gpc = "loop"
    /\ inflight = {}
    /\ unresolved = <<>>
    /\ timings = {}
    /\ cleaned = FALSE
    /\ late_calls = {}
    /\ run_no = 1
    /\ executions = [n \in tasks(registry) |-> 0]

\* One iteration head of `while remaining:` with a non-empty ready list:
\* asyncio.gather creates and starts one coroutine per ready task.
ScheduleLayer ==
    /\ gpc = "loop"
    /\ remaining # {}
    /\ LET r == ReadyOf(registry, remaining, completed) IN
        /\ r # {}
        /\ ready' = r
        /\ status' = [n \in DOMAIN status |-> IF n \in r THEN "running" ELSE status[n]]
        /\ startCount' = [n \in DOMAIN startCount |->
                            IF n \in r THEN startCount[n] + 1 ELSE startCount[n]]
        /\ layers' = Append(layers, r)
        /\ executions' = [n \in DOMAIN executions |->
                            IF n \in r THEN executions[n] + 1 ELSE executions[n]]
        /\ gpc' = "gather"
    /\ UNCHANGED <<cleaned, late_calls, run_no, timings, unresolved, inflight, registry, remaining, completed>>

\* `if not ready: raise RuntimeError("Dependency cycle detected: ...")`
RaiseCycle ==
    /\ gpc = "loop"
    /\ remaining # {}
    /\ ReadyOf(registry, remaining, completed) = {}
    /\ gpc' = "cycle"
    /\ unresolved' = Joined(remaining)
    /\ UNCHANGED <<cleaned, late_calls, run_no, executions, timings, inflight, registry, remaining, completed, ready, status, startCount, layers>>

\* `while remaining:` is false: the runner returns.
FinishGraph ==
    /\ gpc = "loop"
    /\ remaining = {}
    /\ gpc' = "done"
    /\ UNCHANGED <<cleaned, late_calls, run_no, executions, timings, unresolved, inflight, registry, remaining, completed, ready, status, startCount, layers>>

\* A running task body awaits ctx.run: aexec_in_container hands
\* exec_in_container to a worker thread (asyncio.to_thread); nothing holds a
\* lock per workspace, so the coroutines of a layer issue their execs
\* independently of each other.
IssueExec(n) ==
    /\ n \in DOMAIN status
    /\ status[n] = "running"
    /\ ~cleaned
    /\ n \notin inflight
    /\ inflight' = inflight \cup {n}
    /\ UNCHANGED <<cleaned, late_calls, run_no, executions, timings, unresolved, registry, remaining, completed, ready, status, startCount, layers, gpc>>

\* The exec of task n returns (or raises) to the awaiting task body.
ExecReturns(n) ==
    /\ n \in inflight
    /\ inflight' = inflight \ {n}
    /\ UNCHANGED <<cleaned, late_calls, run_no, executions, timings, unresolved, registry, remaining, completed, ready, status, startCount, layers, gpc>>

\* _run_task_with_timing: the task body returns.
TaskSucceeds(n) ==
    /\ n \in DOMAIN status
    /\ status[n] = "running"
    /\ n \notin inflight
    /\ status' = [status EXCEPT ![n] = "ok"]
    /\ timings' = timings \cup {TimingLabel("task", {n})}
    /\ UNCHANGED <<cleaned, late_calls, run_no, executions, unresolved, inflight, registry, remaining, completed, ready, startCount, layers, gpc>>

\* _run_task_with_timing: the task body raises.  asyncio.gather (without
\* return_exceptions) propagates the first exception to the awaiting runner;
\* the other coroutines of the layer are not cancelled and keep running.
TaskRaisesSwallowed(n) ==
    /\ n \in DOMAIN status
    /\ status[n] = "running"
    /\ n \notin inflight
    /\ status' = [status EXCEPT ![n] = "failed"]
    /\ UNCHANGED <<cleaned, late_calls, run_no, executions, timings, unresolved, inflight, registry, remaining, completed, ready, startCount, layers, gpc>>
TaskRaises(n) ==
    /\ n \in DOMAIN status
    /\ status[n] = "running"
    /\ n \notin inflight
    /\ status' = [status EXCEPT ![n] = "failed"]
    /\ gpc' = IF gpc = "gather" THEN "raised" ELSE gpc
    /\ UNCHANGED <<cleaned, late_calls, run_no, executions, timings, unresolved, inflight, registry, remaining, completed, ready, startCount, layers>>

\* asyncio.gather returns: every coroutine of the layer finished without
\* raising; the layer is recorded as completed and removed from remaining.
LayerCompleted ==
    /\ gpc = "gather"
    /\ \A n \in ready : status[n] = "ok"
    /\ completed' = completed \cup ready
    /\ remaining' = PopLayer(remaining, ready)
    /\ registry' = RegistryAfterPop(registry, ready)
    /\ timings' = timings \cup {TimingLabel("layer", ready)}
    /\ ready' = {}
    /\ gpc' = "loop"
    /\ UNCHANGED <<cleaned, late_calls, run_no, executions, unresolved, inflight, status, startCount, layers>>

\* provision_and_snapshot, `except Exception:` with cleanup_on_failure: the
\* handler runs as soon as gather has propagated the first exception and
\* calls shutdown_lxc, time.sleep and delete_lxc synchronously, so no
\* coroutine runs meanwhile; the worker threads that asyncio.to_thread
\* started for an exec or push_file are not waited for.  When the handler
\* re-raises, asyncio.run cancels the coroutines that are left.
CleanupWorkspace ==
    /\ gpc = "raised"
    /\ ~cleaned
    /\ cleaned' = TRUE
    /\ UNCHANGED <<late_calls, run_no, executions, timings, unresolved, inflight, registry,
                   remaining, completed, ready, status, startCount, layers, gpc>>

\* The worker thread of an outstanding push_file_to_container or
\* exec_in_container call sends its next request (the next chunk of
\* http_push_file, or the SSH fallback after http_exec returned None).
ThreadCallAfterCleanup(n) ==
    /\ cleaned
    /\ n \in inflight
    /\ n \notin late_calls
    /\ late_calls' = late_calls \cup {n}
    /\ UNCHANGED <<cleaned, run_no, executions, timings, unresolved, inflight, registry,
                   remaining, completed, ready, status, startCount, layers, gpc>>

\* The next call of the runner on the same registry object (the orchestrator
\* runs the graph once per preset, and only after the previous preset
\* succeeded, with a fresh task context): `remaining = registry.tasks;
\* completed = set()`.
RunAgain ==
    /\ gpc = "done"
    /\ run_no < MaxRuns
    /\ run_no' = run_no + 1
    /\ remaining' = tasks(registry)
    /\ completed' = {}
    /\ ready' = {}
    /\ status' = [n \in DOMAIN status |-> "pending"]
    /\ startCount' = [n \in DOMAIN startCount |-> 0]
    /\ layers' = <<>>
    /\ gpc' = "loop"
    /\ timings' = {}
    /\ UNCHANGED <<cleaned, late_calls, executions, unresolved, inflight, registry>>

NextGraph ==
    \/ RunAgain
    \/ ScheduleLayer
    \/ RaiseCycle
    \/ FinishGraph
    \/ \E n \in DOMAIN registry : IssueExec(n)
    \/ \E n \in DOMAIN registry : ExecReturns(n)
    \/ \E n \in DOMAIN registry : TaskSucceeds(n)
    \/ \E n \in DOMAIN registry : TaskRaises(n)
    \/ LayerCompleted
    \/ CleanupWorkspace
    \/ \E n \in DOMAIN registry : ThreadCallAfterCleanup(n)

GraphIdle ==
    /\ registry = <<>>
    /\ remaining = {}
    /\ completed = {}
    /\ ready = {}
    /\ status = <<>>
    /\ startCount = <<>>
    /\ layers = <<>>
    /\ gpc = "idle"
    /\ inflight = {}
    /\ unresolved = <<>>
    /\ timings = {}
    /\ cleaned = FALSE
    /\ late_calls = {}
    /\ run_no = 0
    /\ executions = <<>>

(***************************************************************************)
(* Remote-exec transport: PveLxcClient.http_exec, pct_exec / ssh_exec,     *)
(* exec_in_container, and the retry loop of PveTaskContext._run_pct_exec   *)
(***************************************************************************)

\* subprocess.CompletedProcess (its returncode), or None.
None == [isNone |-> TRUE, returncode |-> 0]
CompletedProcess(rc) == [isNone |-> FALSE, returncode |-> rc]

\* Events of the HTTP exec stream, as http_exec dispatches on them.
\* An exit event without "code" reads as code 0 (event.get("code", 0)).
ExitEventCodes == {0, 2}
Events ==
    {[type |-> ty, code |-> 0] : ty \in {"stdout", "stderr", "error"}}
    \cup {[type |-> "exit", code |-> c] : c \in ExitEventCodes}
EventSeqs == UNION {[1..n -> Events] : n \in 0..MaxEvents}

\* How the iteration over the response ends: the body is exhausted, or the
\* read raises.  "OSError" stands for an OSError that is none of the classes
\* named before it in the except chain (ssl.SSLError, ConnectionAbortedError,
\* EHOSTUNREACH on recv, ...).
StreamEnds == {"eof", "TimeoutError", "ConnectionResetError", "BrokenPipeError",
               "IncompleteRead", "OSError"}
ConnectionErrors == {"ConnectionResetError", "BrokenPipeError", "IncompleteRead", "OSError"}

HttpErrorCodes == {404, 500, 502, 503, 504, 524}

\* What one http_exec call can observe.
NoUrlObs == [kind |-> "nourl", code |-> 0, end |-> "none"]
HttpObs ==
    {[kind |-> "HTTPError", code |-> c, end |-> "none"] : c \in HttpErrorCodes}
    \cup {[kind |-> "URLError", code |-> 0, end |-> "none"]}
    \cup {[kind |-> "stream", code |-> 200, end |-> e] : e \in StreamEnds}

\* What one ssh_exec call (subprocess.run of ssh ... pct exec) can observe.
SshReturnCodes == {0, 2, 255}
SshObs ==
    {[kind |-> "result", code |-> c] : c \in SshReturnCodes}
    \cup {[kind |-> "TimeoutExpired", code |-> 0], [kind |-> "OSError", code |-> 0]}

max_attempts == 3

\* `if e.code in (502, 503, 504, 524): return None`
GatewayNever(code) == FALSE
GatewayAny5xx(code) == code >= 500
GatewayCode(code) == code \in {502, 503, 504, 524}

\* The dispatch on event_type inside `for line in response`.
EventExitCode(event, exit_code) ==
    IF event.type = "exit" THEN CompletedProcess(event.code)
    ELSE IF event.type = "error" THEN CompletedProcess(1)
    ELSE exit_code

RECURSIVE StreamExitCode(_, _)
StreamExitCode(evs, exit_code) ==
    IF evs = <<>> THEN exit_code
    ELSE StreamExitCode(Tail(evs), EventExitCode(Head(evs), exit_code))

\* `if exit_code is None: exit_code = 0`
DefaultExitOne(exit_code) == IF exit_code.isNone THEN CompletedProcess(1) ELSE exit_code
DefaultExit(exit_code) == IF exit_code.isNone THEN CompletedProcess(0) ELSE exit_code

\* The except chain of http_exec over a started response stream.
StreamEndResult(end, exit_code) ==
    IF end = "eof" THEN DefaultExit(exit_code)
    ELSE IF end = "TimeoutError" THEN CompletedProcess(124)
    ELSE IF end \in {"ConnectionResetError", "BrokenPipeError", "IncompleteRead"}
         THEN CompletedProcess(125)
    ELSE None

\* PveLxcClient.http_exec(check=False): the CompletedProcess it returns, or None.
http_exec(obs, evs) ==
    IF obs.kind = "nourl" THEN None
    ELSE IF obs.kind = "HTTPError"
         THEN (IF GatewayCode(obs.code) THEN None ELSE CompletedProcess(1))
    ELSE IF obs.kind = "URLError" THEN None
    ELSE StreamEndResult(obs.end, StreamExitCode(evs, None))

ExecIdle ==
    /\ cf_domain = FALSE
    /\ ssh_host_explicit = FALSE
    /\ http_host_cached = FALSE
    /\ attempts = 0
    /\ xpc = "idle"
    /\ httpLog = <<>>
    /\ events = <<>>
    /\ sshLog = <<>>
    /\ via = "none"
    /\ result = None
    /\ exc = "none"
    /\ httpSends = 0
    /\ sshSends = 0
    /\ cmdStarts = 0
    /\ outcome = [kind |-> "none", code |-> 0]

\* ctx.run entered on a client in any transport configuration.
InitExecVars ==
    /\ cf_domain \in BOOLEAN
    /\ ssh_host_explicit \in BOOLEAN
    /\ http_host_cached \in {FALSE, cf_domain}
    /\ attempts = 0
    /\ xpc = "attempt"
    /\ httpLog = <<>>
    /\ events = <<>>
    /\ sshLog = <<>>
    /\ via = "none"
    /\ result = None
    /\ exc = "none"
    /\ httpSends = 0
    /\ sshSends = 0
    /\ cmdStarts = 0
    /\ outcome = [kind |-> "none", code |-> 0]

\* `while True: attempts += 1; try: result = await aexec_in_container(...)`
BeginAttempt ==
    /\ xpc = "attempt"
    /\ attempts' = attempts + 1
    /\ via' = "none"
    /\ exc' = "none"
    /\ xpc' = "http"
    /\ UNCHANGED <<cf_domain, ssh_host_explicit, http_host_cached, httpLog, events, sshLog, result,
                   httpSends, sshSends, cmdStarts, outcome>>

\* exec_in_container: `result = self.http_exec(vmid, command, check=False)`.
\* build_exec_url yields no URL without cf_domain or when the host id cannot
\* be resolved; otherwise the request is sent and its observation classified.
HttpExec ==
    /\ xpc = "http"
    /\ \E resolved \in BOOLEAN, sent \in HttpObs, read \in EventSeqs :
        LET hasUrl == cf_domain /\ (http_host_cached \/ resolved)
            obs == IF hasUrl THEN sent ELSE NoUrlObs
            evs == IF obs.kind = "stream" THEN read ELSE <<>>
            r == http_exec(obs, evs)
        IN  /\ http_host_cached' = hasUrl
            /\ httpLog' = Append(httpLog, obs)
            /\ events' = evs
            /\ httpSends' = httpSends + (IF hasUrl THEN 1 ELSE 0)
            /\ cmdStarts' = cmdStarts + (IF obs.kind = "stream" THEN 1 ELSE 0)
            /\ via' = IF hasUrl THEN "http" ELSE via
            /\ result' = r
            /\ xpc' = IF r.isNone THEN "fallback" ELSE "result"
    /\ UNCHANGED <<cf_domain, ssh_host_explicit, attempts, sshLog, exc, sshSends, outcome>>

\* exec_in_container: `if not self._ssh_host_explicit: raise RuntimeError(...)`
NoTransport ==
    /\ xpc = "fallback"
    /\ ~ssh_host_explicit
    /\ exc' = "NoTransport"
    /\ xpc' = "except"
    /\ UNCHANGED <<cf_domain, ssh_host_explicit, http_host_cached, attempts, httpLog, events, sshLog,
                   via, result, httpSends, sshSends, cmdStarts, outcome>>

\* exec_in_container: `return self.pct_exec(vmid, command, check=check)`
\* -> ssh_exec -> subprocess.run(ssh_cmd, timeout=timeout or 600).
PctExec ==
    /\ xpc = "fallback"
    /\ ssh_host_explicit
    /\ \E obs \in SshObs :
        /\ sshLog' = Append(sshLog, obs)
        /\ cmdStarts' = cmdStarts + (IF obs.kind = "OSError" THEN 0 ELSE 1)
        /\ IF obs.kind = "result"
           THEN /\ result' = CompletedProcess(obs.code)
                /\ exc' = exc
                /\ xpc' = "result"
           ELSE /\ result' = result
                /\ exc' = obs.kind
                /\ xpc' = "except"
    /\ sshSends' = sshSends + 1
    /\ via' = "ssh"
    /\ UNCHANGED <<cf_domain, ssh_host_explicit, http_host_cached, attempts, httpLog, events,
                   httpSends, outcome>>

\* `except subprocess.TimeoutExpired: raise TimeoutError(...)`
\* `except (OSError, RuntimeError): if attempts < max_attempts: sleep; continue`
\* `raise`
HandleExecException ==
    /\ xpc = "except"
    /\ IF exc = "TimeoutExpired"
       THEN /\ outcome' = [kind |-> "TimeoutError", code |-> 0]
            /\ xpc' = "done"
       ELSE IF attempts < max_attempts
       THEN /\ outcome' = outcome
            /\ xpc' = "attempt"
       ELSE /\ outcome' = [kind |-> exc, code |-> 0]
            /\ xpc' = "done"
    /\ UNCHANGED <<cf_domain, ssh_host_explicit, http_host_cached, attempts, httpLog, events, sshLog,
                   via, result, exc, httpSends, sshSends, cmdStarts>>

\* After the loop: `if result.returncode != 0: raise RuntimeError("{label}
\* failed with exit code {returncode}")`, else return PveExecResponse.
RunOutcomeSwallowed(res) == [kind |-> "returned", code |-> 0]
RunOutcome(res) ==
    IF res.returncode # 0
    THEN [kind |-> "TaskFailed", code |-> res.returncode]
    ELSE [kind |-> "returned", code |-> 0]

FinishRun ==
    /\ xpc = "result"
    /\ outcome' = RunOutcome(result)
    /\ xpc' = "done"
    /\ UNCHANGED <<cf_domain, ssh_host_explicit, http_host_cached, attempts, httpLog, events, sshLog,
                   via, result, exc, httpSends, sshSends, cmdStarts>>

NextExec ==
    \/ BeginAttempt
    \/ HttpExec
    \/ NoTransport
    \/ PctExec
    \/ HandleExecException
    \/ FinishRun

(***************************************************************************)
(* One workspace through provision_and_create_template (called from        *)
(* provision_and_snapshot) or update_existing_template, with               *)
(* _verify_template_artifacts as the gate before convert_to_template       *)
(***************************************************************************)

\* Entries of `artifacts`: two per IDE provider plus the seven common ones.
NumArtifacts == 9

\* What one verifier check (aexec_in_container, check=False) can observe:
\* a result with a return code and the word its stdout carries, or an
\* exception (no transport, timeout, OSError).  "pos" is "exists"/"found",
\* "neg" is "missing"/"notfound", "" is no output at all.
CheckObs ==
    {[kind |-> "result", rc |-> c, stdout |-> w] : c \in {0, 1}, w \in {"pos", "neg", ""}}
    \cup {[kind |-> "raises", rc |-> 0, stdout |-> ""]}

\* `if result.returncode != 0 or "missing" in result.stdout: missing.append`
\* `except Exception as e: missing.append(...)`
CheckFailsStdoutOnly(obs) == obs.kind = "result" /\ obs.stdout = "neg"
CheckFails(obs) ==
    \/ obs.kind = "raises"
    \/ obs.rc # 0
    \/ obs.stdout = "neg"

\* What was observed by the checks, independent of how the verifier counts it.
Seen(obs) ==
    IF obs.kind = "raises" THEN {"raised"}
    ELSE (IF obs.rc # 0 THEN {"nonzero"} ELSE {})
         \cup (IF obs.stdout = "neg" THEN {"missing"} ELSE {})

\* What one `echo ready` exec of the wait loop can observe: a result (return
\* code, whether stdout carries "ready"), no result at all (http_exec
\* returned None), or an exception.
ReadyObs ==
    {[kind |-> "result", rc |-> c, stdout |-> w] : c \in {0, 1}, w \in {"ready", ""}}
    \cup {[kind |-> k, rc |-> 0, stdout |-> ""] : k \in {"none", "raises"}}

\* Both call sites pass require_http_exec=True.
require_http_exec == TRUE

\* `if result is not None and result.returncode == 0 and "ready" in result.stdout`
IsReadyAny(res) == TRUE
IsReady(res) == res.kind = "result" /\ res.rc = 0 /\ res.stdout = "ready"

\* The tools probed by detect_toolchains: `which go`, `which cargo`,
\* `which bun`, `which node`.
Toolchains == {"go", "cargo", "bun", "node"}

\* What one probe (aexec_in_container(..., check=False)) can observe: a
\* result with a return code, or an exception.
ProbeObs ==
    {[kind |-> "result", rc |-> c] : c \in {0, 1}} \cup {[kind |-> "raises", rc |-> 0]}
ProbeKind(obs) ==
    IF obs.kind = "raises" THEN "raised" ELSE IF obs.rc = 0 THEN "zero" ELSE "nonzero"

\* `try: result = ...; status.has_x = result.returncode == 0`
\* `except Exception: pass` (the field keeps its default False).
HasToolUnlessNonZero(obs) == ~(obs.kind = "result" /\ obs.rc # 0)
HasTool(obs) == obs.kind = "result" /\ obs.rc = 0

detect_toolchains(probes) == [t \in Toolchains |-> HasTool(probes[t])]

\* ToolchainStatus.all_present
all_present(found) == \A t \in Toolchains : found[t]

ProvIdle ==
    /\ mode = "none"
    /\ run_tasks = FALSE
    /\ is_template = FALSE
    /\ cleanup_on_failure = FALSE
    /\ has_snapshots = FALSE
    /\ client_cf_domain = FALSE
    /\ shutdown_exit = "none"
    /\ polls = 0
    /\ container_running = FALSE
    /\ echo_ok = FALSE
    /\ wait_result = "none"
    /\ ppc = "idle"
    /\ ws = "absent"
    /\ created_containers = <<>>
    /\ graphRan = FALSE
    /\ checked = 0
    /\ missing = 0
    /\ seen = {}
    /\ verified = "no"
    /\ convertRequested = FALSE
    /\ manifestEntry = FALSE
    /\ perr = "none"
    /\ probe_seen = {}
    /\ active_registry = "none"

\* Full mode enters provision_and_create_template with the manifest loaded;
\* update mode enters update_existing_template with the source's config read
\* (the source is a template to clone, or a container that is updated in
\* place and may already be running and may carry snapshots: list_snapshots
\* is never called).  A fresh clone has no snapshots.
InitProvVars ==
    /\ mode \in {"full", "update"}
    /\ run_tasks \in (IF mode = "full" THEN BOOLEAN ELSE {TRUE})
    /\ is_template \in (IF mode = "full" THEN {TRUE} ELSE BOOLEAN)
    /\ cleanup_on_failure \in (IF mode = "full" THEN BOOLEAN ELSE {FALSE})
    /\ has_snapshots \in (IF is_template THEN {FALSE} ELSE BOOLEAN)
    /\ client_cf_domain \in BOOLEAN
    /\ shutdown_exit = "none"
    /\ polls = 0
    /\ container_running = FALSE
    /\ echo_ok = FALSE
    /\ wait_result = "none"
    /\ ppc = IF is_template THEN "clone" ELSE "start"
    /\ ws \in (IF is_template THEN {"absent"} ELSE {"stopped", "running"})
    /\ created_containers = <<>>
    /\ graphRan = FALSE
    /\ checked = 0
    /\ missing = 0
    /\ seen = {}
    /\ verified = "no"
    /\ convertRequested = FALSE
    /\ manifestEntry = FALSE
    /\ perr = "none"
    /\ probe_seen = {}
    /\ active_registry = "none"

provFrame == <<mode, run_tasks, is_template, cleanup_on_failure, has_snapshots, client_cf_domain>>
waitVars == <<polls, container_running, echo_ok, wait_result>>
detectVars == <<probe_seen, active_registry>>

\* An exception leaves the flow at position ppc.
Raise(e) ==
    /\ perr' = e
    /\ ppc' = "failed"

\* aclone_lxc + await_task: linked clone, then full clone as fallback.  In
\* full mode the new VMID is appended to created_containers.
Clone ==
    /\ ppc = "clone"
    /\ \E ok \in BOOLEAN :
        IF ok
        THEN /\ ws' = "stopped"
             /\ created_containers' =
                    IF mode = "full" THEN Append(created_containers, 1) ELSE created_containers
             /\ ppc' = IF mode = "full" THEN "configure" ELSE "start"
             /\ perr' = perr
        ELSE /\ Raise("CloneFailed")
             /\ UNCHANGED <<ws, created_containers>>
    /\ UNCHANGED <<detectVars, provFrame, shutdown_exit, waitVars, graphRan, checked, missing, seen, verified, convertRequested,
                   manifestEntry>>

\* aset_lxc_config(cores, memory), aget_lxc_config, aresize_lxc_disk.
Configure ==
    /\ ppc = "configure"
    /\ \E ok \in BOOLEAN :
        IF ok
        THEN /\ ppc' = IF run_tasks THEN "start" ELSE "convert"
             /\ perr' = perr
        ELSE Raise("ProviderError")
    /\ UNCHANGED <<detectVars, provFrame, shutdown_exit, waitVars, ws, created_containers, graphRan, checked, missing, seen, verified,
                   convertRequested, manifestEntry>>

\* update_existing_template probes the toolchains between the wait for the
\* container and the task graph; provision_and_create_template does not.
AfterReady == IF mode = "update" THEN "detect" ELSE "graph"

\* astart_lxc + await_task(timeout=120), then the call of
\* wait_for_container_ready.  Update mode skips both when the container is
\* already running.
StartContainer ==
    /\ ppc = "start"
    /\ IF mode = "update" /\ ws = "running"
       THEN /\ ppc' = AfterReady
            /\ UNCHANGED <<ws, perr>>
       ELSE \E started \in BOOLEAN :
            IF ~started
            THEN Raise("StartFailed") /\ ws' = ws
            ELSE /\ ws' = "running"
                 /\ ppc' = "wait"
                 /\ perr' = perr
    /\ UNCHANGED <<detectVars, provFrame, shutdown_exit, waitVars, created_containers, graphRan, checked,
                   missing, seen, verified, convertRequested, manifestEntry>>

\* One iteration of `while elapsed < timeout:` in wait_for_container_ready:
\* the status poll, then the `echo ready` exec when cf_domain is configured
\* and require_http_exec, else the return on the API status alone; a poll
\* that does not return sleeps and adds to elapsed.
WaitPoll ==
    /\ ppc = "wait"
    /\ polls < MaxPolls
    /\ \E st \in {"running", "stopped"}, res \in ReadyObs :
        IF st = "running"
        THEN /\ container_running' = TRUE
             /\ IF client_cf_domain /\ require_http_exec
                THEN /\ echo_ok' = (echo_ok \/ (res.kind = "result" /\ res.rc = 0))
                     /\ IF IsReady(res)
                        THEN /\ wait_result' = "returned"
                             /\ ppc' = AfterReady
                             /\ polls' = polls
                        ELSE /\ polls' = polls + 1
                             /\ UNCHANGED <<wait_result, ppc>>
                ELSE /\ wait_result' = "returned"
                     /\ ppc' = AfterReady
                     /\ UNCHANGED <<polls, echo_ok>>
        ELSE /\ polls' = polls + 1
             /\ UNCHANGED <<container_running, echo_ok, wait_result, ppc>>
    /\ UNCHANGED <<detectVars, provFrame, shutdown_exit, ws, created_containers, graphRan, checked, missing,
                   seen, verified, convertRequested, manifestEntry, perr>>

\* `raise TimeoutError(...)` once elapsed has reached the timeout.
WaitTimeout ==
    /\ ppc = "wait"
    /\ polls >= MaxPolls
    /\ wait_result' = "TimeoutError"
    /\ Raise("TimeoutError")
    /\ UNCHANGED <<detectVars, provFrame, shutdown_exit, ws, polls, container_running, echo_ok,
                   created_containers, graphRan, checked, missing, seen, verified,
                   convertRequested, manifestEntry>>

\* `toolchain_status = await detect_toolchains(...)`, then the choice of
\* active_registry on `toolchain_status.all_present`.
DetectToolchains ==
    /\ ppc = "detect"
    /\ \E probes \in [Toolchains -> ProbeObs] :
        LET toolchain_status == detect_toolchains(probes) IN
        /\ probe_seen' = {ProbeKind(probes[t]) : t \in Toolchains}
        /\ active_registry' = IF all_present(toolchain_status) THEN "update" ELSE "full"
    /\ ppc' = "graph"
    /\ UNCHANGED <<provFrame, shutdown_exit, waitVars, ws, created_containers, graphRan, checked,
                   missing, seen, verified, convertRequested, manifestEntry, perr>>

\* `await run_pve_task_graph(registry, ctx)`: returns, or raises what a task
\* body or the scheduler raised.
RunGraph ==
    /\ ppc = "graph"
    /\ graphRan' = TRUE
    /\ \E ok \in BOOLEAN :
        IF ok
        THEN ppc' = "verify" /\ perr' = perr
        ELSE Raise("TaskFailed")
    /\ UNCHANGED <<detectVars, provFrame, shutdown_exit, waitVars, ws, created_containers, checked, missing, seen, verified,
                   convertRequested, manifestEntry>>

\* One iteration of `for path, description in artifacts:`.
VerifyArtifact ==
    /\ ppc = "verify"
    /\ checked < NumArtifacts
    /\ \E obs \in CheckObs :
        /\ missing' = missing + (IF CheckFails(obs) THEN 1 ELSE 0)
        /\ seen' = seen \cup Seen(obs)
    /\ checked' = checked + 1
    /\ UNCHANGED <<detectVars, provFrame, shutdown_exit, waitVars, ppc, ws, created_containers, graphRan, verified, convertRequested,
                   manifestEntry, perr>>

\* The cmux extension check, then `if missing: raise RuntimeError(...)`.
VerifyExtension ==
    /\ ppc = "verify"
    /\ checked = NumArtifacts
    /\ \E obs \in CheckObs :
        LET m == missing + (IF CheckFails(obs) THEN 1 ELSE 0) IN
        /\ missing' = m
        /\ seen' = seen \cup Seen(obs)
        /\ IF m > 0
           THEN /\ verified' = "raised"
                /\ Raise("VerificationFailed")
           ELSE /\ verified' = "passed"
                /\ ppc' = "shutdown"
                /\ perr' = perr
    /\ checked' = checked + 1
    /\ UNCHANGED <<detectVars, provFrame, shutdown_exit, waitVars, ws, created_containers, graphRan, convertRequested, manifestEntry>>

\* ashutdown_lxc + await_task(timeout=120): returns when the task is stopped
\* with exitstatus "OK", raises RuntimeError on any other exitstatus and
\* TimeoutError when the task is not stopped in time.
Shutdown ==
    /\ ppc = "shutdown"
    /\ \E ok \in BOOLEAN :
        IF ok
        THEN /\ ws' = "stopped"
             /\ shutdown_exit' = "OK"
             /\ ppc' = "convert"
             /\ perr' = perr
        ELSE /\ Raise("ShutdownFailed")
             /\ shutdown_exit' \in {"failed", "timeout"}
             /\ ws' \in {"running", "stopped"}
    /\ UNCHANGED <<detectVars, provFrame, waitVars, created_containers, graphRan, checked, missing, seen,
                   verified, convertRequested, manifestEntry>>

\* aconvert_to_template: POST .../template; raises on an error message.
ConvertToTemplate ==
    /\ ppc = "convert"
    /\ convertRequested' = TRUE
    /\ \E ok \in BOOLEAN :
        IF ok
        THEN /\ ws' = "template"
             /\ ppc' = "describe"
             /\ perr' = perr
        ELSE /\ Raise("ProviderError")
             /\ ws' = ws
    /\ UNCHANGED <<detectVars, provFrame, shutdown_exit, waitVars, created_containers, graphRan, checked, missing, seen, verified,
                   manifestEntry>>

\* Full mode: aset_lxc_config(description, tags), return the TemplateRunResult.
\* Update mode: _load_manifest, _find_preset_for_vmid, aset_lxc_config.
Describe ==
    /\ ppc = "describe"
    /\ \E ok \in BOOLEAN :
        IF ok
        THEN ppc' = "record" /\ perr' = perr
        ELSE Raise("ProviderError")
    /\ UNCHANGED <<detectVars, provFrame, shutdown_exit, waitVars, ws, created_containers, graphRan, checked, missing, seen, verified,
                   convertRequested, manifestEntry>>

\* Full mode: after the preset loop, _update_manifest_with_template for each
\* result and _write_manifest.  Update mode: `if preset_entry:` add the
\* version and write, else leave the manifest alone.
RecordManifest ==
    /\ ppc = "record"
    /\ \E preset_entry \in (IF mode = "update" THEN BOOLEAN ELSE {TRUE}) :
        manifestEntry' = preset_entry
    /\ ppc' = "done"
    /\ UNCHANGED <<detectVars, provFrame, shutdown_exit, waitVars, ws, created_containers, graphRan, checked, missing, seen, verified,
                   convertRequested, perr>>

\* provision_and_snapshot: `except Exception:` cleanup of created_containers
\* when cleanup_on_failure (shutdown_lxc, delete_lxc, errors swallowed), then
\* re-raise.  update_existing_template has no handler: the error leaves it.
FailureCleanup ==
    /\ ppc = "failed"
    /\ IF mode = "full" /\ cleanup_on_failure /\ Len(created_containers) > 0
       THEN \E deleted \in BOOLEAN : ws' = IF deleted THEN "deleted" ELSE ws
       ELSE ws' = ws
    /\ ppc' = "exit"
    /\ UNCHANGED <<detectVars, provFrame, shutdown_exit, waitVars, created_containers, graphRan, checked, missing, seen, verified,
                   convertRequested, manifestEntry, perr>>

NextProv ==
    \/ Clone
    \/ Configure
    \/ StartContainer
    \/ WaitPoll
    \/ WaitTimeout
    \/ DetectToolchains
    \/ RunGraph
    \/ VerifyArtifact
    \/ VerifyExtension
    \/ Shutdown
    \/ ConvertToTemplate
    \/ Describe
    \/ RecordManifest
    \/ FailureCleanup

(***************************************************************************)
(* Manifest helpers and preset plans (scripts/snapshot-pvelxc.py)          *)
(***************************************************************************)

CLONE_BASE_VMID == 9000
DEFAULT_TEMPLATE_VMID == 9000

\* max(mib // 1024, 1) of _preset_id_from_resources and the display helpers.
GiB(mib) == IF mib \div 1024 >= 1 THEN mib \div 1024 ELSE 1

\* _preset_id_from_resources: f"{vcpus}vcpu_{memory_gb}gb_{disk_gb}gb", kept as
\* the three numbers the string is built from.
preset_id_from_resources(vcpus, memory_mib, disk_size_mib) ==
    <<vcpus, GiB(memory_mib), GiB(disk_size_mib)>>

\* The shapes a run may be given (--standard-* and --boosted-* arguments).
\* 33000 MiB and 32768 MiB are different sizes with the same whole GiB.
StandardShapes == [vcpus : {4}, memory_mib : {8192}, disk_size_mib : {32768, 33000}]
BoostedShapes == [vcpus : {4, 6}, memory_mib : {8192}, disk_size_mib : {32768, 40960}]

TemplatePresetPlan(label, shape) ==
    [preset_id     |-> preset_id_from_resources(shape.vcpus, shape.memory_mib, shape.disk_size_mib),
     label         |-> label,
     vcpus         |-> shape.vcpus,
     memory_mib    |-> shape.memory_mib,
     disk_size_mib |-> shape.disk_size_mib]

\* _build_preset_plans: (standard_plan, boosted_plan).
build_preset_plans(a) ==
    <<TemplatePresetPlan("Standard workspace", a.standard),
      TemplatePresetPlan("Performance workspace", a.boosted)>>

\* _generate_snapshot_id: "snapshot_" + uuid4().hex[:8], a random draw from
\* the 8-hex-digit strings, of which two are kept here; 0 stands for a
\* missing or empty snapshotId.
SnapshotIds == {1, 2}

\* find_next_vmid(start=CLONE_BASE_VMID): the first VMID >= start not in use.
find_next_vmid(used) ==
    CHOOSE v \in CLONE_BASE_VMID..(CLONE_BASE_VMID + Cardinality(used)) :
        /\ v \notin used
        /\ \A w \in CLONE_BASE_VMID..(v - 1) : w \in used

\* list.sort(key=lambda entry: entry["version"]): a stable sort, as an
\* insertion of each element after the elements that are not greater.
RECURSIVE InsertByVersion(_, _)
InsertByVersion(e, s) ==
    IF s = <<>> THEN <<e>>
    ELSE IF s[Len(s)].version <= e.version THEN Append(s, e)
    ELSE Append(InsertByVersion(e, SubSeq(s, 1, Len(s) - 1)), s[Len(s)])

RECURSIVE SortByVersion(_)
SortByVersion(s) ==
    IF s = <<>> THEN <<>>
    ELSE InsertByVersion(s[Len(s)], SortByVersion(SubSeq(s, 1, Len(s) - 1)))

MaxVersion(versions) ==
    CHOOSE m \in {versions[j].version : j \in 1..Len(versions)} :
        \A j \in 1..Len(versions) : versions[j].version <= m

\* next_version = 1, or max(version) + 1 when the list is not empty.
NextVersionOne(versions) == 1
NextVersion(versions) == IF versions = <<>> THEN 1 ELSE MaxVersion(versions) + 1

\* The tail of both update functions: build the entry, append, sort.
AppendVersion(versions, template_vmid, snapshot_id, captured_at) ==
    SortByVersion(Append(versions,
        [version      |-> NextVersion(versions),
         snapshotId   |-> snapshot_id,
         templateVmid |-> template_vmid,
         capturedAt   |-> captured_at]))

\* _add_version_to_preset (update mode), as the new value of the entry.
add_version_to_preset(preset_entry, template_vmid, snapshot_id, captured_at) ==
    [preset_entry EXCEPT
        !.versions = AppendVersion(@, template_vmid, snapshot_id, captured_at)]

\* The candidate loop of _update_manifest_with_template: the position of the
\* first entry with the preset's presetId, 0 for None.
FindPresetNever(presets, preset_id) == 0
FindPreset(presets, preset_id) ==
    IF \E i \in 1..Len(presets) : presets[i].presetId = preset_id
    THEN CHOOSE i \in 1..Len(presets) :
            /\ presets[i].presetId = preset_id
            /\ \A k \in 1..(i - 1) : presets[k].presetId # preset_id
    ELSE 0

\* _update_manifest_with_template, on the presets list of the manifest.
update_manifest_with_template(presets, preset, template_vmid, snapshot_id, captured_at) ==
    LET i == FindPreset(presets, preset.preset_id)
        withEntry ==
            IF i = 0
            THEN Append(presets, [presetId |-> preset.preset_id, label |-> preset.label,
                                  versions |-> <<>>])
            ELSE [presets EXCEPT ![i].label = preset.label]
        pos == IF i = 0 THEN Len(withEntry) ELSE i
    IN  [withEntry EXCEPT
            ![pos].versions = AppendVersion(@, template_vmid, snapshot_id, captured_at)]

\* _find_preset_for_vmid: the first preset holding a version with that
\* templateVmid, 0 for None.
find_first_preset(presets, vmid) == IF presets = <<>> THEN 0 ELSE 1
find_preset_for_vmid(presets, vmid) ==
    LET holds(i) == \E j \in 1..Len(presets[i].versions) :
                        presets[i].versions[j].templateVmid = vmid
    IN  IF \E i \in 1..Len(presets) : holds(i)
        THEN CHOOSE i \in 1..Len(presets) : holds(i) /\ \A k \in 1..(i - 1) : ~holds(k)
        ELSE 0

\* _ensure_manifest_snapshot_ids: every version without a snapshotId gets a
\* generated one; fill maps the positions of those versions to the ids drawn.
MissingIds(presets) ==
    UNION {{<<i, j>> : j \in {k \in 1..Len(presets[i].versions) :
                                presets[i].versions[k].snapshotId = 0}} :
           i \in 1..Len(presets)}

ensure_manifest_snapshot_ids(presets, fill) ==
    [i \in 1..Len(presets) |->
        [presets[i] EXCEPT
            !.versions = [j \in 1..Len(@) |->
                IF @[j].snapshotId = 0
                THEN [@[j] EXCEPT !.snapshotId = fill[<<i, j>>]]
                ELSE @[j]]]]

(***************************************************************************)
(* Orchestrator runs: main, provision_and_snapshot with its preset loop,   *)
(* failure handler and manifest update, and the manifest part of           *)
(* update_existing_template                                                *)
(***************************************************************************)

CURRENT_MANIFEST_SCHEMA_VERSION == 2

\* The manifest file: whether it exists, whether json.loads accepts its text,
\* and the schemaVersion and presets of the document it holds.
\* LegacyFile: one preset whose only version has no snapshotId.
LegacyFile ==
    [exists  |-> TRUE,
     parses  |-> TRUE,
     schemaVersion |-> CURRENT_MANIFEST_SCHEMA_VERSION,
     presets |-> <<[presetId |-> preset_id_from_resources(4, 8192, 32768),
                    label    |-> "Standard workspace",
                    versions |-> <<[version |-> 1, snapshotId |-> 0,
                                    templateVmid |-> CLONE_BASE_VMID + 1,
                                    capturedAt |-> 0]>>]>>]

\* No file: schemaVersion is the one _load_manifest gives its default document.
AbsentFile ==
    [exists |-> FALSE, parses |-> TRUE, schemaVersion |-> CURRENT_MANIFEST_SCHEMA_VERSION,
     presets |-> <<>>]

\* A file whose text is not JSON.
CorruptFile == [AbsentFile EXCEPT !.exists = TRUE, !.parses = FALSE]

\* A JSON document of the schema before the current one, without presets.
OldSchemaFile ==
    [AbsentFile EXCEPT !.exists = TRUE, !.schemaVersion = CURRENT_MANIFEST_SCHEMA_VERSION - 1]

NoCall == [preset |-> 0, source_vmid |-> 0, run_tasks |-> FALSE, new_vmid |-> 0,
           graph_ran |-> FALSE]

\* Exceptions that `except Exception` catches; asyncio.CancelledError and
\* KeyboardInterrupt derive from BaseException only.
ExceptionClasses == {"ProviderError", "TaskError", "VerificationError", "SchedulerError"}

OrchIdle ==
    /\ args = [standard |-> [vcpus |-> 0, memory_mib |-> 0, disk_size_mib |-> 0],
               boosted  |-> [vcpus |-> 0, memory_mib |-> 0, disk_size_mib |-> 0],
               cleanup_on_failure |-> FALSE]
    /\ manifest_file = AbsentFile
    /\ manifest = <<>>
    /\ opc = "idle"
    /\ runs = 0
    /\ okRuns = 0
    /\ updateRuns = 0
    /\ index = 0
    /\ call = NoCall
    /\ run_created_containers = <<>>
    /\ results = <<>>
    /\ last_template_vmid = 0
    /\ last_template_disk_mib = 0
    /\ used_vmids = {}
    /\ raised = "none"
    /\ cleanup_pos = 0
    /\ calls = <<>>
    /\ shutdownLog = <<>>
    /\ deleteLog = <<>>
    /\ file_at_start = AbsentFile
    /\ exit_status = "none"

InitOrchVars ==
    /\ args \in [standard : StandardShapes, boosted : BoostedShapes,
                 cleanup_on_failure : BOOLEAN]
    /\ manifest_file \in {AbsentFile, LegacyFile, CorruptFile, OldSchemaFile}
    /\ manifest = <<>>
    /\ opc = "start"
    /\ runs = 0
    /\ okRuns = 0
    /\ updateRuns = 0
    /\ index = 0
    /\ call = NoCall
    /\ run_created_containers = <<>>
    /\ results = <<>>
    /\ last_template_vmid = 0
    /\ last_template_disk_mib = 0
    /\ used_vmids = {DEFAULT_TEMPLATE_VMID} \cup
                    {manifest_file.presets[i].versions[1].templateVmid :
                        i \in 1..Len(manifest_file.presets)}
    /\ raised = "none"
    /\ cleanup_pos = 0
    /\ calls = <<>>
    /\ shutdownLog = <<>>
    /\ deleteLog = <<>>
    /\ file_at_start = manifest_file
    /\ exit_status = "none"

preset_plans == build_preset_plans(args)

\* What one run keeps from the runs before it.
acrossRuns == <<args, okRuns, updateRuns>>

\* _load_manifest raises RuntimeError: the file exists and json.loads fails.
\* The schemaVersion of the document is not looked at.
LoadRaises(file) == file.exists /\ ~file.parses

\* _load_manifest: the empty manifest when the file does not exist, else the
\* file's content after _ensure_manifest_snapshot_ids; the set of presets
\* lists the call can return, one per draw of the generated ids (none when
\* it raises).
load_manifest(file) ==
    IF ~file.exists THEN {<<>>}
    ELSE IF LoadRaises(file) THEN {}
    ELSE {ensure_manifest_snapshot_ids(file.presets, fill) :
            fill \in [MissingIds(file.presets) -> SnapshotIds]}

\* _write_manifest of the document held in memory: the loaded document with
\* its presets list as updated.
write_manifest(loaded_from, presets) ==
    [loaded_from EXCEPT !.exists = TRUE, !.presets = presets]

\* The locals of a run as they are when it enters provision_and_snapshot or
\* update_existing_template.
FreshRun ==
    /\ file_at_start' = manifest_file
    /\ index' = 0
    /\ run_created_containers' = <<>>
    /\ results' = <<>>
    /\ last_template_vmid' = 0
    /\ last_template_disk_mib' = 0
    /\ cleanup_pos' = 0
    /\ calls' = <<>>
    /\ shutdownLog' = <<>>
    /\ deleteLog' = <<>>

\* main -> asyncio.run(provision_and_snapshot(args)), up to the `try:`.
StartRun ==
    /\ opc \in {"start", "exited"}
    /\ runs < MaxRuns
    /\ runs' = runs + 1
    /\ manifest' \in load_manifest(manifest_file)
    /\ FreshRun
    /\ call' = NoCall
    /\ raised' = "none"
    /\ exit_status' = "none"
    /\ opc' = "loop"
    /\ UNCHANGED <<acrossRuns, manifest_file, used_vmids>>

\* `if last_template_vmid and preset_plan.disk_size_mib >= last_template_disk_mib`
ChainsFromStrict(last_vmid, disk_mib, last_disk_mib) ==
    last_vmid # 0 /\ disk_mib > last_disk_mib
ChainsFrom(last_vmid, disk_mib, last_disk_mib) ==
    last_vmid # 0 /\ disk_mib >= last_disk_mib

\* Top of `for index, preset_plan in enumerate(preset_plans)`: choose the
\* source and run_tasks and call provision_and_create_template.
NextPreset ==
    /\ opc = "loop"
    /\ index < Len(preset_plans)
    /\ index' = index + 1
    /\ LET chained == ChainsFrom(last_template_vmid, preset_plans[index + 1].disk_size_mib,
                                 last_template_disk_mib)
       IN  call' = [preset      |-> index + 1,
                    source_vmid |-> IF chained THEN last_template_vmid ELSE DEFAULT_TEMPLATE_VMID,
                    run_tasks   |-> ~chained,
                    new_vmid    |-> 0,
                    graph_ran   |-> FALSE]
    /\ calls' = Append(calls, call')
    /\ opc' = "clone"
    /\ UNCHANGED <<acrossRuns, manifest_file, manifest, runs, run_created_containers, results,
                   last_template_vmid, last_template_disk_mib, used_vmids, raised, cleanup_pos,
                   shutdownLog, deleteLog, file_at_start, exit_status>>

\* An exception leaves provision_and_create_template.
OrchRaise(e) ==
    /\ raised' = e
    /\ opc' = "handler"

\* find_next_vmid, linked clone, full clone when the linked clone failed,
\* created_containers.append(new_vmid).
OrchClone ==
    /\ opc = "clone"
    /\ \E linked \in BOOLEAN, full \in BOOLEAN :
        IF linked \/ full
        THEN /\ call' = [call EXCEPT !.new_vmid = find_next_vmid(used_vmids)]
             /\ used_vmids' = used_vmids \cup {find_next_vmid(used_vmids)}
             /\ run_created_containers' =
                    Append(run_created_containers, find_next_vmid(used_vmids))
             /\ calls' = [calls EXCEPT ![Len(calls)] = call']
             /\ opc' = "configure"
             /\ raised' = raised
        ELSE /\ OrchRaise("ProviderError")
             /\ UNCHANGED <<call, calls, used_vmids, run_created_containers>>
    /\ UNCHANGED <<acrossRuns, manifest_file, manifest, runs, index, results, last_template_vmid,
                   last_template_disk_mib, cleanup_pos, shutdownLog, deleteLog,
                   file_at_start, exit_status>>

\* aset_lxc_config and the disk resize.
OrchConfigure ==
    /\ opc = "configure"
    /\ \E ok \in BOOLEAN :
        IF ok
        THEN /\ opc' = IF call.run_tasks THEN "tasks" ELSE "convert"
             /\ raised' = raised
        ELSE OrchRaise("ProviderError")
    /\ UNCHANGED <<acrossRuns, manifest_file, manifest, runs, index, call, run_created_containers,
                   results, last_template_vmid, last_template_disk_mib, used_vmids, cleanup_pos,
                   calls, shutdownLog, deleteLog, file_at_start, exit_status>>

\* `if run_tasks:` start, wait_for_container_ready, run_pve_task_graph,
\* _verify_template_artifacts, shutdown.
OrchRunTasks ==
    /\ opc = "tasks"
    /\ \E e \in ExceptionClasses \cup {"none"}, ran \in BOOLEAN :
        /\ e # "ProviderError" => ran
        /\ call' = [call EXCEPT !.graph_ran = ran]
        /\ calls' = [calls EXCEPT ![Len(calls)] = call']
        /\ IF e = "none"
           THEN /\ opc' = "convert"
                /\ raised' = raised
           ELSE OrchRaise(e)
    /\ UNCHANGED <<acrossRuns, manifest_file, manifest, runs, index, run_created_containers,
                   results, last_template_vmid, last_template_disk_mib, used_vmids, cleanup_pos,
                   shutdownLog, deleteLog, file_at_start, exit_status>>

\* `return TemplateRunResult(..., template_vmid=new_vmid, ...)`
ResultSourceVmid(c) == c.source_vmid
ResultTemplateVmid(c) == c.new_vmid

\* aconvert_to_template, _iso_timestamp, _generate_snapshot_id, the
\* description / tags config call, and back in the loop: results.append and
\* the last_template_* update.
OrchConvert ==
    /\ opc = "convert"
    /\ \E ok \in BOOLEAN, snapshot_id \in SnapshotIds :
        IF ok
        THEN /\ results' = Append(results, [preset        |-> preset_plans[index],
                                            snapshot_id   |-> snapshot_id,
                                            template_vmid |-> ResultTemplateVmid(call),
                                            captured_at   |-> runs])
             /\ last_template_vmid' = call.new_vmid
             /\ last_template_disk_mib' = preset_plans[index].disk_size_mib
             /\ opc' = "loop"
             /\ raised' = raised
        ELSE /\ OrchRaise("ProviderError")
             /\ UNCHANGED <<results, last_template_vmid, last_template_disk_mib>>
    /\ UNCHANGED <<acrossRuns, manifest_file, manifest, runs, index, call, run_created_containers,
                   used_vmids, cleanup_pos, calls, shutdownLog, deleteLog, file_at_start,
                   exit_status>>

\* SIGINT while the run awaits inside provision_and_create_template:
\* asyncio.run cancels the main task (CancelledError at the await) and then
\* raises KeyboardInterrupt in main.
Cancel ==
    /\ opc \in {"clone", "configure", "tasks", "convert"}
    /\ OrchRaise("CancelledError")
    /\ UNCHANGED <<acrossRuns, manifest_file, manifest, runs, index, call, run_created_containers,
                   results, last_template_vmid, last_template_disk_mib, used_vmids, cleanup_pos,
                   calls, shutdownLog, deleteLog, file_at_start, exit_status>>

\* `except Exception as e:` of provision_and_snapshot.  A caught exception
\* enters the cleanup loop when args.cleanup_on_failure, else is re-raised to
\* main (`except Exception: sys.exit(1)`).  An exception the clause does not
\* catch runs only `finally` and leaves main uncaught.
HandleException ==
    /\ opc = "handler"
    /\ IF raised \in ExceptionClasses
       THEN IF args.cleanup_on_failure
            THEN /\ opc' = "cleanup"
                 /\ cleanup_pos' = 1
                 /\ exit_status' = exit_status
            ELSE /\ opc' = "exited"
                 /\ exit_status' = "1"
                 /\ cleanup_pos' = cleanup_pos
       ELSE /\ opc' = "exited"
            /\ exit_status' = "interrupt"
            /\ cleanup_pos' = cleanup_pos
    /\ UNCHANGED <<acrossRuns, manifest_file, manifest, runs, index, call, run_created_containers,
                   results, last_template_vmid, last_template_disk_mib, used_vmids, raised,
                   calls, shutdownLog, deleteLog, file_at_start>>

\* One iteration of `for vmid in created_containers:` in the handler:
\* shutdown_lxc, sleep, delete_lxc inside one try whose `except Exception`
\* passes.
CleanupOne ==
    /\ opc = "cleanup"
    /\ cleanup_pos <= Len(run_created_containers)
    /\ \E shutdown_ok \in BOOLEAN, delete_ok \in BOOLEAN :
        LET vmid == run_created_containers[cleanup_pos]
        IN  /\ shutdownLog' = Append(shutdownLog, [vmid |-> vmid, ok |-> shutdown_ok])
            /\ deleteLog' = IF shutdown_ok THEN Append(deleteLog, vmid) ELSE deleteLog
            /\ used_vmids' = IF shutdown_ok /\ delete_ok THEN used_vmids \ {vmid} ELSE used_vmids
    /\ cleanup_pos' = cleanup_pos + 1
    /\ UNCHANGED <<acrossRuns, manifest_file, manifest, opc, runs, index, call,
                   run_created_containers, results, last_template_vmid, last_template_disk_mib,
                   raised, calls, file_at_start, exit_status>>

\* The handler's `raise` after the cleanup loop; main prints the traceback
\* and exits with status 1.
Reraise ==
    /\ opc = "cleanup"
    /\ cleanup_pos > Len(run_created_containers)
    /\ opc' = "exited"
    /\ exit_status' = "1"
    /\ UNCHANGED <<acrossRuns, manifest_file, manifest, runs, index, call, run_created_containers,
                   results, last_template_vmid, last_template_disk_mib, used_vmids, raised,
                   cleanup_pos, calls, shutdownLog, deleteLog, file_at_start>>

\* `for result in results: manifest = _update_manifest_with_template(...)`
RECURSIVE ApplyResults(_, _)
ApplyResults(presets, rs) ==
    IF rs = <<>> THEN presets
    ELSE ApplyResults(update_manifest_with_template(presets, Head(rs).preset,
                                                    Head(rs).template_vmid, Head(rs).snapshot_id,
                                                    Head(rs).captured_at),
                      Tail(rs))

\* The preset loop ended without an exception: update the manifest with every
\* result, _write_manifest, summary, return to main.
WriteManifest ==
    /\ opc = "loop"
    /\ index = Len(preset_plans)
    /\ manifest' = ApplyResults(manifest, results)
    /\ manifest_file' = write_manifest(file_at_start, manifest')
    /\ okRuns' = okRuns + 1
    /\ opc' = "exited"
    /\ exit_status' = "0"
    /\ UNCHANGED <<args, updateRuns, runs, index, call, run_created_containers, results,
                   last_template_vmid, last_template_disk_mib, used_vmids, raised, cleanup_pos,
                   calls, shutdownLog, deleteLog, file_at_start>>

\* main -> provision_and_snapshot whose _load_manifest raises: the error
\* leaves the coroutine before its `try:` and main exits with status 1.
StartRunLoadFails ==
    /\ opc \in {"start", "exited"}
    /\ runs < MaxRuns
    /\ LoadRaises(manifest_file)
    /\ runs' = runs + 1
    /\ manifest' = <<>>
    /\ FreshRun
    /\ call' = NoCall
    /\ raised' = "ManifestError"
    /\ exit_status' = "1"
    /\ opc' = "exited"
    /\ UNCHANGED <<acrossRuns, manifest_file, used_vmids>>

\* The templateVmids of all versions of a presets list; the containers they
\* name are templates, as is the base template.
TemplateVmidsOf(presets) ==
    UNION {{presets[i].versions[j].templateVmid : j \in 1..Len(presets[i].versions)} :
           i \in 1..Len(presets)}

\* update_existing_template: a source that is a template is cloned to the
\* next free VMID, a regular container is worked on directly
\* (`work_vmid = source_vmid`).
\* The manifest part of update_existing_template, reached after the work
\* container was made and converted to a template: _load_manifest,
\* _find_preset_for_vmid(source_vmid) and, when a preset was found,
\* _add_version_to_preset and _write_manifest.
UpdateMode ==
    /\ opc \in {"start", "exited"}
    /\ runs < MaxRuns
    /\ runs' = runs + 1
    /\ updateRuns' = updateRuns + 1
    /\ FreshRun
    /\ raised' = "none"
    /\ \E loaded \in load_manifest(manifest_file), source_vmid \in used_vmids,
          snapshot_id \in SnapshotIds, source_is_template \in BOOLEAN :
        LET work_vmid == IF source_is_template THEN find_next_vmid(used_vmids) ELSE source_vmid
            i == find_preset_for_vmid(loaded, source_vmid)
        IN  /\ source_vmid \in TemplateVmidsOf(loaded) \cup {DEFAULT_TEMPLATE_VMID}
                    => source_is_template
            /\ used_vmids' = used_vmids \cup {work_vmid}
            /\ call' = [NoCall EXCEPT !.source_vmid = source_vmid, !.new_vmid = work_vmid]
            /\ IF i # 0
               THEN /\ manifest' = [loaded EXCEPT
                            ![i] = add_version_to_preset(@, work_vmid, snapshot_id, runs')]
                    /\ manifest_file' = write_manifest(manifest_file, manifest')
               ELSE /\ manifest' = loaded
                    /\ manifest_file' = manifest_file
    /\ opc' = "exited"
    /\ exit_status' = "0"
    /\ UNCHANGED <<args, okRuns>>

\* update_existing_template whose _load_manifest raises: the new template
\* exists by then, the error leaves the coroutine and main exits with 1.
UpdateModeLoadFails ==
    /\ opc \in {"start", "exited"}
    /\ runs < MaxRuns
    /\ LoadRaises(manifest_file)
    /\ runs' = runs + 1
    /\ manifest' = <<>>
    /\ FreshRun
    /\ raised' = "ManifestError"
    /\ \E source_vmid \in used_vmids :
        /\ used_vmids' = used_vmids \cup {find_next_vmid(used_vmids)}
        /\ call' = [NoCall EXCEPT !.source_vmid = source_vmid,
                                  !.new_vmid = find_next_vmid(used_vmids)]
    /\ opc' = "exited"
    /\ exit_status' = "1"
    /\ UNCHANGED <<args, okRuns, updateRuns, manifest_file>>

NextOrch ==
    \/ StartRun
    \/ NextPreset
    \/ OrchClone
    \/ OrchConfigure
    \/ OrchRunTasks
    \/ OrchConvert
    \/ Cancel
    \/ HandleException
    \/ CleanupOne
    \/ Reraise
    \/ WriteManifest
    \/ StartRunLoadFails
    \/ UpdateMode
    \/ UpdateModeLoadFails

(***************************************************************************)
(* The manifest file as text: _write_manifest (json.dumps, Path.write_text) *)
(* and _load_manifest (Path.read_text, json.loads,                         *)
(* _ensure_manifest_snapshot_ids)                                          *)
(***************************************************************************)

\* The JSON text is kept as its sequence of tokens: punctuation, object
\* keys, strings and integers.
Punct(c) == [t |-> "punct", s |-> c, n |-> 0]
Key(k) == [t |-> "key", s |-> k, n |-> 0]
Str(x) == [t |-> "str", s |-> x, n |-> 0]
Num(i) == [t |-> "num", s |-> "", n |-> i]

\* json.dumps of one version entry.
DumpVersion(v) ==
    <<Punct("{"), Key("version"), Num(v.version), Key("snapshotId"), Num(v.snapshotId),
      Key("templateVmid"), Num(v.templateVmid), Key("capturedAt"), Num(v.capturedAt),
      Punct("}")>>

RECURSIVE DumpVersions(_)
DumpVersions(versions) ==
    IF versions = <<>> THEN <<>>
    ELSE DumpVersion(Head(versions)) \o DumpVersions(Tail(versions))

\* json.dumps of one preset entry.
DumpPreset(p) ==
    <<Punct("{"), Key("presetId"), Str(p.presetId), Key("label"), Str(p.label),
      Key("versions"), Punct("[")>> \o DumpVersions(p.versions) \o <<Punct("]"), Punct("}")>>

RECURSIVE DumpPresets(_)
DumpPresets(presets) ==
    IF presets = <<>> THEN <<>>
    ELSE DumpPreset(Head(presets)) \o DumpPresets(Tail(presets))

\* json.dumps emits every key of the dict, also one the schema does not
\* know; extra = "" stands for a document without such a key.
DumpExtraDropped(document) == <<>>
DumpExtra(document) ==
    IF document.extra = "" THEN <<>> ELSE <<Key("extra"), Str(document.extra)>>

\* json.dumps(manifest, indent=2, sort_keys=False) + "\n"
Dumps(document) ==
    <<Punct("{"), Key("schemaVersion"), Num(document.schemaVersion), Key("presets"),
      Punct("[")>> \o DumpPresets(document.presets) \o <<Punct("]")>> \o DumpExtra(document)
      \o <<Punct("}"), Punct("newline")>>

ParseError == [ok |-> FALSE, val |-> <<>>, rest |-> <<>>]

\* json.loads, as a descent through the tokens; each parser returns the
\* value it read and the tokens after it, or ParseError.
RECURSIVE ParseVersions(_)
ParseVersions(toks) ==
    IF toks = <<>> THEN ParseError
    ELSE IF Head(toks) = Punct("]") THEN [ok |-> TRUE, val |-> <<>>, rest |-> Tail(toks)]
    ELSE IF /\ Len(toks) >= 10
            /\ toks[1] = Punct("{")
            /\ toks[2] = Key("version")      /\ toks[3].t = "num"
            /\ toks[4] = Key("snapshotId")   /\ toks[5].t = "num"
            /\ toks[6] = Key("templateVmid") /\ toks[7].t = "num"
            /\ toks[8] = Key("capturedAt")   /\ toks[9].t = "num"
            /\ toks[10] = Punct("}")
         THEN LET more == ParseVersions(SubSeq(toks, 11, Len(toks)))
              IN  IF more.ok
                  THEN [more EXCEPT !.val =
                            <<[version |-> toks[3].n, snapshotId |-> toks[5].n,
                               templateVmid |-> toks[7].n, capturedAt |-> toks[9].n]>> \o @]
                  ELSE ParseError
         ELSE ParseError

RECURSIVE ParsePresets(_)
ParsePresets(toks) ==
    IF toks = <<>> THEN ParseError
    ELSE IF Head(toks) = Punct("]") THEN [ok |-> TRUE, val |-> <<>>, rest |-> Tail(toks)]
    ELSE IF /\ Len(toks) >= 7
            /\ toks[1] = Punct("{")
            /\ toks[2] = Key("presetId") /\ toks[3].t = "str"
            /\ toks[4] = Key("label")    /\ toks[5].t = "str"
            /\ toks[6] = Key("versions")
            /\ toks[7] = Punct("[")
         THEN LET versions == ParseVersions(SubSeq(toks, 8, Len(toks)))
              IN  IF versions.ok /\ versions.rest # <<>> /\ Head(versions.rest) = Punct("}")
                  THEN LET more == ParsePresets(Tail(versions.rest))
                       IN  IF more.ok
                           THEN [more EXCEPT !.val =
                                    <<[presetId |-> toks[3].s, label |-> toks[5].s,
                                       versions |-> versions.val]>> \o @]
                           ELSE ParseError
                  ELSE ParseError
         ELSE ParseError

\* The end of the document: an unknown key, if any, then "}" and the newline.
ParseTail(toks) ==
    IF toks = <<Punct("}"), Punct("newline")>>
    THEN [ok |-> TRUE, val |-> "", rest |-> <<>>]
    ELSE IF /\ Len(toks) = 4
            /\ toks[1] = Key("extra") /\ toks[2].t = "str"
            /\ toks[3] = Punct("}")   /\ toks[4] = Punct("newline")
         THEN [ok |-> TRUE, val |-> toks[2].s, rest |-> <<>>]
         ELSE [ok |-> FALSE, val |-> "", rest |-> <<>>]

NoDocument == [schemaVersion |-> 0, presets |-> <<>>, extra |-> ""]

\* json.loads(text): [ok, val]; ok is FALSE where json.loads raises.
Loads(toks) ==
    IF /\ Len(toks) >= 5
       /\ toks[1] = Punct("{")
       /\ toks[2] = Key("schemaVersion") /\ toks[3].t = "num"
       /\ toks[4] = Key("presets")
       /\ toks[5] = Punct("[")
    THEN LET presets == ParsePresets(SubSeq(toks, 6, Len(toks)))
             tail == IF presets.ok THEN ParseTail(presets.rest) ELSE ParseTail(<<>>)
         IN  IF presets.ok /\ tail.ok
             THEN [ok  |-> TRUE,
                   val |-> [schemaVersion |-> toks[3].n, presets |-> presets.val,
                            extra |-> tail.val]]
             ELSE [ok |-> FALSE, val |-> NoDocument]
    ELSE [ok |-> FALSE, val |-> NoDocument]

\* The text of a manifest file written by an earlier version of the script:
\* one preset whose version has no snapshotId, and a key the current schema
\* does not know.
LegacyText ==
    <<Punct("{"), Key("schemaVersion"), Num(CURRENT_MANIFEST_SCHEMA_VERSION), Key("presets"),
      Punct("["),
        Punct("{"), Key("presetId"), Str("4vcpu_8gb_32gb"), Key("label"),
        Str("Standard workspace"), Key("versions"), Punct("["),
          Punct("{"), Key("version"), Num(1), Key("snapshotId"), Num(0),
          Key("templateVmid"), Num(CLONE_BASE_VMID + 1), Key("capturedAt"), Num(0), Punct("}"),
        Punct("]"), Punct("}"),
      Punct("]"), Key("extra"), Str("x"), Punct("}"), Punct("newline")>>

\* A document written by the current version of the script.
CurrentDocument ==
    [schemaVersion |-> CURRENT_MANIFEST_SCHEMA_VERSION,
     presets |-> <<[presetId |-> "4vcpu_8gb_32gb", label |-> "Standard workspace",
                    versions |-> <<[version |-> 1, snapshotId |-> 1,
                                    templateVmid |-> CLONE_BASE_VMID + 1, capturedAt |-> 0]>>]>>,
     extra |-> ""]

\* The document _load_manifest returns when the file does not exist.
DefaultDocument ==
    [schemaVersion |-> CURRENT_MANIFEST_SCHEMA_VERSION, presets |-> <<>>, extra |-> ""]

NoPath == [exists |-> FALSE, text |-> <<>>]

\* The plans of a run with the default shapes, as the update functions use them.
FilePlans ==
    {[preset_id |-> "4vcpu_8gb_32gb", label |-> "Standard workspace"],
     [preset_id |-> "6vcpu_8gb_40gb", label |-> "Performance workspace"]}

RECURSIVE CountVersions(_)
CountVersions(presets) ==
    IF presets = <<>> THEN 0 ELSE Len(Head(presets).versions) + CountVersions(Tail(presets))

FileIdle ==
    /\ path = NoPath
    /\ mem = NoDocument
    /\ written = NoDocument
    /\ before_write = NoPath
    /\ fpc = "idle"

InitFileVars ==
    /\ path \in {NoPath, [exists |-> TRUE, text |-> LegacyText],
                 [exists |-> TRUE, text |-> Dumps(CurrentDocument)]}
    /\ mem = NoDocument
    /\ written = NoDocument
    /\ before_write = NoPath
    /\ fpc = "start"

\* _load_manifest on the file as it is: the documents it can return.
LoadedDocuments ==
    IF ~path.exists THEN {DefaultDocument}
    ELSE IF ~Loads(path.text).ok THEN {}
    ELSE {[Loads(path.text).val EXCEPT !.presets = ensure_manifest_snapshot_ids(@, fill)] :
            fill \in [MissingIds(Loads(path.text).val.presets) -> SnapshotIds]}

\* _load_manifest at the start of a run, or of a later run once the file
\* was written or the writing process had stopped.
FileLoad ==
    /\ fpc \in {"start", "written", "stopped"}
    /\ IF LoadedDocuments = {}
       THEN /\ fpc' = "raised"
            /\ mem' = NoDocument
       ELSE /\ fpc' = IF fpc = "start" THEN "loaded" ELSE "reloaded"
            /\ mem' \in LoadedDocuments
    /\ UNCHANGED <<path, written, before_write>>

\* One _update_manifest_with_template on the document held in memory.
FileUpdate ==
    /\ fpc \in {"loaded", "updated"}
    /\ CountVersions(mem.presets) <= MaxUpdates
    /\ \E plan \in FilePlans, snapshot_id \in SnapshotIds :
        mem' = [mem EXCEPT !.presets =
                    update_manifest_with_template(@, plan,
                        CLONE_BASE_VMID + 2 + CountVersions(mem.presets), snapshot_id, 1)]
    /\ fpc' = "updated"
    /\ UNCHANGED <<path, written, before_write>>

\* _write_manifest: json.dumps, then Path.write_text opens the manifest path
\* itself with mode "w", which creates or truncates it.
OpenTruncate ==
    /\ fpc = "updated"
    /\ written' = mem
    /\ before_write' = path
    /\ path' = [exists |-> TRUE, text |-> <<>>]
    /\ fpc' = "writing"
    /\ UNCHANGED mem

\* Some more of the text reaches the file.
WriteFlush ==
    /\ fpc = "writing"
    /\ Len(path.text) < Len(Dumps(written))
    /\ \E upto \in (Len(path.text) + 1)..Len(Dumps(written)) :
        path' = [path EXCEPT !.text = SubSeq(Dumps(written), 1, upto)]
    /\ UNCHANGED <<mem, written, before_write, fpc>>

\* write_text returns: the file is closed with the whole text in it.
CloseFile ==
    /\ fpc = "writing"
    /\ path.text = Dumps(written)
    /\ fpc' = "written"
    /\ UNCHANGED <<path, mem, written, before_write>>

\* The process stops (kill, power loss, disk full) inside write_text.
ProcessStops ==
    /\ fpc = "writing"
    /\ fpc' = "stopped"
    /\ UNCHANGED <<path, mem, written, before_write>>

NextFile ==
    \/ FileLoad
    \/ FileUpdate
    \/ OpenTruncate
    \/ WriteFlush
    \/ CloseFile
    \/ ProcessStops

(***************************************************************************)
(* The upload-repo task: task_upload_repo with upload_repo_via_diff as the *)
(* git-diff path and upload_repo_to_container + extract as the full upload *)
(***************************************************************************)

max_clone_attempts == 3

\* What the local checkout answers to get_git_remote_url, get_current_branch
\* and get_remote_branch_commit (None is FALSE).
Repos == [remote_url : BOOLEAN, current_branch : BOOLEAN, upstream_commit : BOOLEAN]

\* What one aexec_in_container(check=False) can observe: a result with its
\* return code and whether stderr carries a transient gateway error, or an
\* exception (no transport, subprocess.TimeoutExpired, OSError).
AexecObs ==
    {[kind |-> "result", rc |-> c, transient |-> tr] : c \in {0, 1}, tr \in BOOLEAN}
    \cup {[kind |-> "raises", rc |-> 0, transient |-> FALSE]}

\* What apush_file_to_container / ctx.run can observe.
StepObs == {"ok", "raises"}

UploadIdle ==
    /\ use_diff = FALSE
    /\ repo = [remote_url |-> FALSE, current_branch |-> FALSE, upstream_commit |-> FALSE]
    /\ upc = "idle"
    /\ attempt = 0
    /\ clone_outcome = "none"
    /\ diff_success = "none"
    /\ full_upload = <<>>
    /\ uerr = "none"

InitUploadVars ==
    /\ use_diff \in BOOLEAN
    /\ repo \in Repos
    /\ upc = "start"
    /\ attempt = 0
    /\ clone_outcome = "none"
    /\ diff_success = "none"
    /\ full_upload = <<>>
    /\ uerr = "none"

\* upload_repo_via_diff returns False.
ReturnFalse ==
    /\ diff_success' = "False"
    /\ upc' = "full"

\* `use_diff = get_git_diff_mode()`, `if use_diff:`.
EnterUpload ==
    /\ upc = "start"
    /\ upc' = IF use_diff THEN "git" ELSE "full"
    /\ UNCHANGED <<use_diff, repo, attempt, clone_outcome, diff_success, full_upload, uerr>>

\* The local git queries at the head of upload_repo_via_diff: no remote URL,
\* no current branch (detached HEAD) or no commit for the upstream ref each
\* return False; a missing tracking branch alone is replaced by
\* origin/<current_branch>.
LocalGitChecks ==
    /\ upc = "git"
    /\ IF repo.remote_url /\ repo.current_branch /\ repo.upstream_commit
       THEN /\ upc' = "clone"
            /\ attempt' = 1
            /\ diff_success' = diff_success
       ELSE /\ ReturnFalse
            /\ attempt' = attempt
    /\ UNCHANGED <<use_diff, repo, clone_outcome, full_upload, uerr>>

\* `if not is_transient or attempt >= max_clone_attempts: return False`
GivesUp(obs, n) == ~obs.transient \/ n >= max_clone_attempts

\* One iteration of `for attempt in range(1, max_clone_attempts + 1)`: the
\* clone/fetch exec in the container.
CloneAttempt ==
    /\ upc = "clone"
    /\ \E obs \in AexecObs :
        IF obs.kind = "raises"
        THEN /\ clone_outcome' = "raised"
             /\ uerr' = "ExecError"
             /\ upc' = "raised"
             /\ UNCHANGED <<attempt, diff_success>>
        ELSE IF obs.rc = 0
        THEN /\ clone_outcome' = "ok"
             /\ upc' = "patch"
             /\ UNCHANGED <<attempt, diff_success, uerr>>
        ELSE IF GivesUp(obs, attempt)
        THEN /\ clone_outcome' = "failed"
             /\ ReturnFalse
             /\ UNCHANGED <<attempt, uerr>>
        ELSE /\ attempt' = attempt + 1
             /\ UNCHANGED <<clone_outcome, diff_success, upc, uerr>>
    /\ UNCHANGED <<use_diff, repo, full_upload>>

\* create_full_diff_patch, then (with a patch) apush_file_to_container and
\* the `git apply` exec; a failed apply is logged and the path still
\* returns True, an exception of the push or the exec leaves the task.
PatchAndReturn ==
    /\ upc = "patch"
    /\ \E has_patch \in BOOLEAN, push \in StepObs, apply \in AexecObs :
        IF has_patch /\ (push = "raises" \/ apply.kind = "raises")
        THEN /\ uerr' = "ExecError"
             /\ upc' = "raised"
             /\ diff_success' = diff_success
        ELSE /\ diff_success' = "True"
             /\ upc' = "done"
             /\ uerr' = uerr
    /\ UNCHANGED <<use_diff, repo, attempt, clone_outcome, full_upload>>

\* upload_repo_to_container: the archive is created and pushed.
ArchivePush ==
    /\ upc = "full"
    /\ full_upload' = Append(full_upload, "push")
    /\ \E push \in StepObs :
        IF push = "ok"
        THEN upc' = "extract" /\ uerr' = uerr
        ELSE upc' = "raised" /\ uerr' = "PushError"
    /\ UNCHANGED <<use_diff, repo, attempt, clone_outcome, diff_success>>

\* ctx.run("extract-repo", ...).
ExtractRepo ==
    /\ upc = "extract"
    /\ full_upload' = Append(full_upload, "extract")
    /\ \E run \in StepObs :
        IF run = "ok"
        THEN upc' = "done" /\ uerr' = uerr
        ELSE upc' = "raised" /\ uerr' = "TaskError"
    /\ UNCHANGED <<use_diff, repo, attempt, clone_outcome, diff_success>>

NextUpload ==
    \/ EnterUpload
    \/ LocalGitChecks
    \/ CloneAttempt
    \/ PatchAndReturn
    \/ ArchivePush
    \/ ExtractRepo

(***************************************************************************)
(* PveLxcClient.http_push_file: the file goes to the workspace as base64   *)
(* text, appended chunk by chunk through http_exec.  Base64 is modelled    *)
(* at reduced width: a byte has 4 bits and a base64 character 3, so that   *)
(* 3 bytes make 4 characters and a short last group is padded, as in the   *)
(* real alphabet (8 and 6 bits).                                           *)
(***************************************************************************)

Bytes == {1, 14}
Pad == 8

\* `chunk_size = 8192  # multiple of 4 for base64 alignment`
chunk_size == 4 * ChunkGroups

Files == UNION {[1..n -> Bytes] : n \in 0..MaxBytes}

\* One group of up to 3 bytes as 4 characters.
B64Group(bs) ==
    IF Len(bs) = 3
    THEN LET v == bs[1] * 256 + bs[2] * 16 + bs[3]
         IN <<v \div 512, (v \div 64) % 8, (v \div 8) % 8, v % 8>>
    ELSE IF Len(bs) = 2
    THEN LET v == (bs[1] * 16 + bs[2]) * 2
         IN <<v \div 64, (v \div 8) % 8, v % 8, Pad>>
    ELSE LET v == bs[1] * 4
         IN <<v \div 8, v % 8, Pad, Pad>>

RECURSIVE b64encode(_)
b64encode(bs) ==
    IF bs = <<>> THEN <<>>
    ELSE IF Len(bs) <= 3 THEN B64Group(bs)
    ELSE B64Group(SubSeq(bs, 1, 3)) \o b64encode(SubSeq(bs, 4, Len(bs)))

\* The bytes of one group of 4 characters.
B64Ungroup(cs) ==
    IF cs[3] = Pad
    THEN <<(cs[1] * 8 + cs[2]) \div 4>>
    ELSE IF cs[4] = Pad
    THEN LET v == (cs[1] * 64 + cs[2] * 8 + cs[3]) \div 2
         IN <<v \div 16, v % 16>>
    ELSE LET v == cs[1] * 512 + cs[2] * 64 + cs[3] * 8 + cs[4]
         IN <<v \div 256, (v \div 16) % 16, v % 16>>

\* `base64 -d` on the text of one chunk: whole groups are decoded, a
\* truncated last group is invalid input and yields nothing.
RECURSIVE b64decode(_)
b64decode(cs) ==
    IF Len(cs) < 4 THEN <<>>
    ELSE B64Ungroup(SubSeq(cs, 1, 4)) \o b64decode(SubSeq(cs, 5, Len(cs)))

\* `chunk = b64_data[offset: offset + chunk_size]`
Chunk(data, off) ==
    SubSeq(data, off + 1, IF off + chunk_size < Len(data) THEN off + chunk_size ELSE Len(data))

\* Whether the command of an http_exec call took effect in the workspace: it
\* did when the stream carries its exit event with code 0, it did not when
\* the request never reached the daemon, and it may or may not have when the
\* stream ended without an exit event, with another exit code, or with a
\* gateway timeout.
Effects(obs, evs) ==
    IF obs.kind = "stream"
    THEN IF \E i \in 1..Len(evs) : evs[i].type = "exit" /\ evs[i].code = 0
         THEN {TRUE} ELSE BOOLEAN
    ELSE IF obs.kind = "HTTPError" /\ GatewayCode(obs.code) THEN BOOLEAN
    ELSE {FALSE}

PushIdle ==
    /\ local_file = <<>>
    /\ b64_data = <<>>
    /\ offset = 0
    /\ remote_file = <<>>
    /\ hpc = "idle"
    /\ push_returned = "none"

\* The remote target may exist with stale content before the push.
InitPushVars ==
    /\ local_file \in Files
    /\ b64_data = <<>>
    /\ offset = 0
    /\ remote_file \in {<<>>, <<14, 1>>}
    /\ hpc = "start"
    /\ push_returned = "none"

\* How http_push_file goes on after one http_exec(check=False): None
\* returns False; a non-zero return code returns False when stderr names
\* 413 / Payload Too Large and raises otherwise; return code 0 continues.
AfterExec(res, too_large, next_hpc) ==
    IF res.isNone
    THEN hpc' = "returned" /\ push_returned' = "False"
    ELSE IF res.returncode # 0
    THEN IF too_large
         THEN hpc' = "returned" /\ push_returned' = "False"
         ELSE hpc' = "returned" /\ push_returned' = "raised"
    ELSE hpc' = next_hpc /\ push_returned' = push_returned

\* build_exec_url, read and encode the local file.
PushEncode ==
    /\ hpc = "start"
    /\ \E exec_url \in BOOLEAN :
        IF exec_url
        THEN /\ b64_data' = b64encode(local_file)
             /\ hpc' = "init"
             /\ push_returned' = push_returned
        ELSE /\ b64_data' = b64_data
             /\ hpc' = "returned"
             /\ push_returned' = "False"
    /\ UNCHANGED <<local_file, offset, remote_file>>

\* `mkdir -p <parent> && : > <path>`: the target is truncated.
PushTruncate ==
    /\ hpc = "init"
    /\ \E obs \in HttpObs, evs \in EventSeqs, too_large \in BOOLEAN :
        /\ \E took_effect \in Effects(obs, evs) :
            remote_file' = IF took_effect THEN <<>> ELSE remote_file
        /\ AfterExec(http_exec(obs, IF obs.kind = "stream" THEN evs ELSE <<>>), too_large,
                     "append")
    /\ UNCHANGED <<local_file, b64_data, offset>>

\* One iteration of `for offset in range(0, len(b64_data), chunk_size)`:
\* `printf '%s' '<chunk>' | base64 -d >> <path>`.
PushAppend ==
    /\ hpc = "append"
    /\ offset < Len(b64_data)
    /\ \E obs \in HttpObs, evs \in EventSeqs, too_large \in BOOLEAN :
        /\ \E took_effect \in Effects(obs, evs) :
            remote_file' = IF took_effect
                           THEN remote_file \o b64decode(Chunk(b64_data, offset))
                           ELSE remote_file
        /\ AfterExec(http_exec(obs, IF obs.kind = "stream" THEN evs ELSE <<>>), too_large,
                     "append")
    /\ offset' = offset + chunk_size
    /\ UNCHANGED <<local_file, b64_data>>

\* The loop is exhausted: `return True`.
PushReturnTrue ==
    /\ hpc = "append"
    /\ offset >= Len(b64_data)
    /\ hpc' = "returned"
    /\ push_returned' = "True"
    /\ UNCHANGED <<local_file, b64_data, offset, remote_file>>

NextPush ==
    \/ PushEncode
    \/ PushTruncate
    \/ PushAppend
    \/ PushReturnTrue

(***************************************************************************)
(* TaskRegistry.task (registration) and format_dependency_graph            *)
(***************************************************************************)

\* The names used in registry.task(name=..., deps=...) calls.
RegNames == {1, 2, 3}

\* `if name in self._tasks: raise ValueError(...)`
TakenNever(tasks_, name) == FALSE
Taken(tasks_, name) == name \in DOMAIN tasks_

\* `self._tasks[name] = TaskDefinition(name, func, tuple(deps), description)`
WithTask(tasks_, name, deps) ==
    [n \in DOMAIN tasks_ \cup {name} |-> IF n = name THEN deps ELSE tasks_[n]]

\* children[dependency] = sorted names of the tasks that list it as a
\* dependency (setdefault also makes entries for unregistered names).
Children(tasks_, node) == InOrder({n \in DOMAIN tasks_ : node \in tasks_[n]})

\* roots = sorted(name for name, d in tasks.items() if not d.dependencies)
Roots(tasks_) == InOrder({n \in DOMAIN tasks_ : tasks_[n] = {}})

\* orphaned = sorted(name for name in tasks if name not in roots and
\*                   all(name not in children.get(other, []) for other in tasks))
Orphaned(tasks_) ==
    InOrder({n \in DOMAIN tasks_ :
                /\ tasks_[n] # {}
                /\ \A other \in DOMAIN tasks_ : n \notin tasks_[other]})

\* One rendered line: its prefix (a list of "   " and "|  " cells), its
\* connector ("" for a root or orphan line), and the node it names; the
\* cycle marker line and the blank separator line name no node (0).
Line(prefix, connector, node) == [prefix |-> prefix, connector |-> connector, node |-> node]
CycleLine(prefix) == [prefix |-> Append(prefix, "   "), connector |-> "cycle", node |-> 0]
BlankLine == [prefix |-> <<>>, connector |-> "blank", node |-> 0]

\* render_node and its loop over the descendants, from index i on.
RECURSIVE render_node(_, _, _, _, _), render_children(_, _, _, _, _)
render_node(tasks_, node, prefix, is_last, path_) ==
    LET line == Line(prefix, IF is_last THEN "last" ELSE "tee", node) IN
    IF node \in path_
    THEN <<line, CycleLine(prefix)>>
    ELSE <<line>> \o render_children(tasks_, Children(tasks_, node), 1,
                                     Append(prefix, IF is_last THEN "   " ELSE "|  "),
                                     path_ \cup {node})
render_children(tasks_, descendants, i, prefix, path_) ==
    IF i > Len(descendants) THEN <<>>
    ELSE render_node(tasks_, descendants[i], prefix, i = Len(descendants), path_)
         \o render_children(tasks_, descendants, i + 1, prefix, path_)

\* `for root_index, root in enumerate(roots)`, from index i on.
RECURSIVE render_roots(_, _, _)
render_roots(tasks_, roots, i) ==
    IF i > Len(roots) THEN <<>>
    ELSE (IF i > 1 THEN <<BlankLine>> ELSE <<>>)
         \o <<Line(<<>>, "", roots[i])>>
         \o render_children(tasks_, Children(tasks_, roots[i]), 1, <<>>, {roots[i]})
         \o render_roots(tasks_, roots, i + 1)

\* `for orphan in orphaned: if lines: lines.append(""); lines.append(orphan)`
RECURSIVE render_orphans(_, _, _)
render_orphans(lines, orphaned, i) ==
    IF i > Len(orphaned) THEN lines
    ELSE render_orphans(lines \o (IF lines # <<>> THEN <<BlankLine>> ELSE <<>>)
                              \o <<Line(<<>>, "", orphaned[i])>>,
                        orphaned, i + 1)

format_dependency_graph(tasks_) ==
    IF DOMAIN tasks_ = {} THEN <<>>
    ELSE render_orphans(render_roots(tasks_, Roots(tasks_), 1), Orphaned(tasks_), 1)

RegIdle ==
    /\ reg_tasks = <<>>
    /\ last_name = 0
    /\ reg_raised = "none"
    /\ rpc = "idle"
    /\ graph_lines = <<>>

\* TaskRegistry.__init__
InitRegVars ==
    /\ reg_tasks = <<>>
    /\ last_name = 0
    /\ reg_raised = "none"
    /\ rpc = "registering"
    /\ graph_lines = <<>>

\* @registry.task(name=..., deps=...): the decorator is applied.
Register(name, deps) ==
    /\ rpc = "registering"
    /\ last_name' = name
    /\ IF Taken(reg_tasks, name)
       THEN /\ reg_raised' = "ValueError"
            /\ reg_tasks' = reg_tasks
       ELSE /\ reg_raised' = "none"
            /\ reg_tasks' = WithTask(reg_tasks, name, deps)
    /\ UNCHANGED <<rpc, graph_lines>>

\* format_dependency_graph(registry) on the filled registry.
FormatGraph ==
    /\ rpc = "registering"
    /\ graph_lines' = format_dependency_graph(reg_tasks)
    /\ rpc' = "formatted"
    /\ UNCHANGED <<reg_tasks, last_name, reg_raised>>

NextReg ==
    \/ \E name \in RegNames, deps \in SUBSET RegNames : Register(name, deps)
    \/ FormatGraph

(***************************************************************************)
(* Specifications                                                          *)
(***************************************************************************)

InitGraph ==
    /\ InitGraphVars
    /\ ExecIdle
    /\ ProvIdle
    /\ OrchIdle
    /\ FileIdle
    /\ UploadIdle
    /\ PushIdle
    /\ RegIdle

SpecGraph ==
    InitGraph /\ [][NextGraph /\ UNCHANGED <<execVars, provVars, orchVars, fileVars, uploadVars, pushVars, regVars>>]_vars

InitExec ==
    /\ InitExecVars
    /\ GraphIdle
    /\ ProvIdle
    /\ OrchIdle
    /\ FileIdle
    /\ UploadIdle
    /\ PushIdle
    /\ RegIdle

SpecExec ==
    InitExec /\ [][NextExec /\ UNCHANGED <<graphVars, provVars, orchVars, fileVars, uploadVars, pushVars, regVars>>]_vars

InitProv ==
    /\ InitProvVars
    /\ GraphIdle
    /\ ExecIdle
    /\ OrchIdle
    /\ FileIdle
    /\ UploadIdle
    /\ PushIdle
    /\ RegIdle

SpecProv ==
    InitProv /\ [][NextProv /\ UNCHANGED <<graphVars, execVars, orchVars, fileVars, uploadVars, pushVars, regVars>>]_vars

InitOrch ==
    /\ InitOrchVars
    /\ GraphIdle
    /\ ExecIdle
    /\ ProvIdle
    /\ FileIdle
    /\ UploadIdle
    /\ PushIdle
    /\ RegIdle

SpecOrch ==
    InitOrch /\ [][NextOrch /\ UNCHANGED <<graphVars, execVars, provVars, fileVars, uploadVars, pushVars, regVars>>]_vars

InitFile ==
    /\ InitFileVars
    /\ GraphIdle
    /\ ExecIdle
    /\ ProvIdle
    /\ OrchIdle
    /\ UploadIdle
    /\ PushIdle
    /\ RegIdle

SpecFile ==
    InitFile /\ [][NextFile /\ UNCHANGED <<graphVars, execVars, provVars, orchVars, uploadVars, pushVars, regVars>>]_vars

InitUpload ==
    /\ InitUploadVars
    /\ GraphIdle
    /\ ExecIdle
    /\ ProvIdle
    /\ OrchIdle
    /\ FileIdle
    /\ PushIdle
    /\ RegIdle

SpecUpload ==
    InitUpload /\ [][NextUpload /\ UNCHANGED <<graphVars, execVars, provVars, orchVars, fileVars,
                                               pushVars, regVars>>]_vars

InitPush ==
    /\ InitPushVars
    /\ GraphIdle
    /\ ExecIdle
    /\ ProvIdle
    /\ OrchIdle
    /\ FileIdle
    /\ UploadIdle
    /\ RegIdle

SpecPush ==
    InitPush /\ [][NextPush /\ UNCHANGED <<graphVars, execVars, provVars, orchVars, fileVars,
                                           uploadVars, regVars>>]_vars

InitReg ==
    /\ InitRegVars
    /\ GraphIdle
    /\ ExecIdle
    /\ ProvIdle
    /\ OrchIdle
    /\ FileIdle
    /\ UploadIdle
    /\ PushIdle

SpecReg ==
    InitReg /\ [][NextReg /\ UNCHANGED <<graphVars, execVars, provVars, orchVars, fileVars,
                                         uploadVars, pushVars>>]_vars

(***************************************************************************)
(* Properties of the task graph runner (checked under SpecGraph)           *)
(***************************************************************************)

RECURSIVE DepClosure(_, _, _)
DepClosure(reg, S, k) ==
    IF k = 0 THEN S
    ELSE DepClosure(reg, S \cup UNION {reg[x] : x \in S \cap DOMAIN reg}, k - 1)

\* Direct and transitive dependencies of n.
TransDeps(reg, n) == DepClosure(reg, reg[n], Cardinality(DOMAIN reg))

\* Every dependency names a registered task and no task depends on itself.
ValidRegistry(reg) ==
    /\ \A n \in DOMAIN reg : reg[n] \subseteq DOMAIN reg
    /\ \A n \in DOMAIN reg : n \notin TransDeps(reg, n)

\* C1: for a valid (acyclic, closed) registry one run of the task graph
\* starts every task body exactly once, and a body is started only when all
\* its direct and transitive dependencies have finished successfully; the
\* run never ends in the dependency-cycle error.
C1_EachTaskOnceAfterDeps ==
    ValidRegistry(registry) =>
        /\ gpc # "cycle"
        /\ \A n \in DOMAIN registry :
            /\ startCount[n] <= 1
            /\ startCount[n] > 0 => \A d \in TransDeps(registry, n) : status[d] = "ok"
            /\ gpc = "done" => startCount[n] = 1 /\ status[n] = "ok"

\* A valid registry with a truly transitive dependency has run to the end.
C1_Witness ==
    /\ ValidRegistry(registry)
    /\ gpc = "done"
    /\ \E n \in DOMAIN registry : TransDeps(registry, n) # registry[n] /\ startCount[n] = 1

\* C2: once a task body has raised, the runner has raised to its caller,
\* the failed task belongs to the last layer that was scheduled (no later
\* layer is ever started), and no task depending on the failed task,
\* directly or transitively, has been started.
C2_FailureStopsScheduling ==
    \A n \in DOMAIN status :
        status[n] = "failed" =>
            /\ gpc = "raised"
            /\ Len(layers) > 0 /\ n \in layers[Len(layers)]
            /\ \A m \in DOMAIN registry : n \in TransDeps(registry, m) => startCount[m] = 0

\* A task failed while a sibling of its layer finished and a dependent waits.
C2_Witness ==
    \E n, m, k \in DOMAIN status :
        /\ status[n] = "failed"
        /\ n \in registry[m] /\ status[m] = "pending"
        /\ k # n /\ k \in layers[Len(layers)] /\ status[k] = "ok"

(***************************************************************************)
(* Properties of the verification gate (checked under SpecProv)            *)
(***************************************************************************)

\* C3: when the task graph was run on the workspace, convert_to_template is
\* requested only after all NumArtifacts artifact checks and the extension
\* check were made and none reported missing, returned non-zero or raised;
\* once a check did, verification raises, conversion is never requested and
\* no manifest version entry is written for the workspace.
C3_VerifyGatesTemplate ==
    /\ (graphRan /\ convertRequested) =>
            /\ verified = "passed"
            /\ checked = NumArtifacts + 1
            /\ seen = {}
    /\ seen # {} =>
            /\ ~convertRequested
            /\ ws # "template"
            /\ ~manifestEntry
            /\ ppc # "verify" => verified = "raised" /\ perr = "VerificationFailed"

\* Update mode ran the graph, every check passed, the workspace became a
\* template and its version entry was written.
C3_Witness ==
    /\ graphRan
    /\ verified = "passed"
    /\ ws = "template"
    /\ manifestEntry
    /\ mode = "update"

(***************************************************************************)
(* Properties of the exec transport (checked under SpecExec)               *)
(***************************************************************************)

\* The observation of the http_exec call of the current attempt.
HttpTried == attempts > 0 /\ Len(httpLog) = attempts
CurHttp == httpLog[Len(httpLog)]
Unavailable(obs) ==
    \/ obs.kind \in {"nourl", "URLError"}
    \/ obs.kind = "HTTPError" /\ obs.code \in {502, 503, 504, 524}

\* C4: the command goes over SSH only if HTTP exec was not configured, was
\* unreachable or answered 502/503/504/524, and only with an explicitly
\* configured SSH host; the no-transport error needs a missing SSH host; a
\* stream that ran to its end is a result and keeps the command off SSH.
C4_SshOnlyWhenHttpUnavailable ==
    /\ via = "ssh" => ssh_host_explicit /\ HttpTried /\ Unavailable(CurHttp)
    /\ (HttpTried /\ Unavailable(CurHttp) /\ ~ssh_host_explicit /\ xpc # "fallback") =>
            exc = "NoTransport"
    /\ (HttpTried /\ CurHttp.kind = "stream" /\ CurHttp.end = "eof") =>
            via = "http" /\ ~result.isNone

\* C5: a connection error raised after the response stream started makes
\* the exec result exit code 125; the command is not sent over SSH and not
\* attempted again, so it was started on the workspace at most once.
C5_StreamErrorNoResend ==
    \A i \in 1..Len(httpLog) :
        (httpLog[i].kind = "stream" /\ httpLog[i].end \in ConnectionErrors) =>
            /\ i = attempts
            /\ via = "http"
            /\ cmdStarts <= 1
            /\ xpc \in {"result", "done"} => result = CompletedProcess(125)

\* C6 as stated: with an SSH host configured, a 502/503/504 answer makes the
\* HTTP transport be attempted three times before the command goes over SSH.
C6_ThreeHttpAttemptsBeforeSsh ==
    (via = "ssh" /\ HttpTried /\ CurHttp.kind = "HTTPError" /\ CurHttp.code \in {502, 503, 504})
        => httpSends = max_attempts

\* C6 amended: with an SSH host configured, an attempt whose HTTP exec
\* answered 502/503/504 sends the command over SSH in that same attempt,
\* after the single HTTP request of that attempt; without an SSH host the
\* attempt raises the no-transport error, and ctx.run ends in that error
\* exactly after max_attempts attempts that all found HTTP exec unavailable.
C6_ImmediateSshFallback ==
    /\ (HttpTried /\ CurHttp.kind = "HTTPError" /\ CurHttp.code \in {502, 503, 504}
            /\ xpc \in {"except", "result", "done"}) =>
        IF ssh_host_explicit
        THEN via = "ssh" /\ Len(sshLog) = attempts /\ httpSends <= attempts
        ELSE /\ sshSends = 0
             /\ xpc = "done" => outcome.kind = "NoTransport"
    /\ outcome.kind = "NoTransport" =>
            /\ ~ssh_host_explicit
            /\ attempts = max_attempts
            /\ Len(httpLog) = max_attempts
            /\ \A i \in 1..Len(httpLog) : http_exec(httpLog[i], <<>>).isNone

\* HTTP answered 502 once and the command was then answered over SSH.
C6_Witness ==
    /\ ssh_host_explicit
    /\ xpc = "done"
    /\ attempts = 1
    /\ httpSends = 1
    /\ httpLog[1].kind = "HTTPError" /\ httpLog[1].code = 502
    /\ via = "ssh"
    /\ outcome.kind = "returned"

\* C7 as stated: a 5xx answer outside 502/503/504/524 (500) is re-attempted,
\* so a failure reported on such an answer comes after max_attempts attempts.
C7_RetriesOn500 ==
    (xpc = "done" /\ HttpTried /\ CurHttp.kind = "HTTPError" /\ CurHttp.code = 500)
        => attempts = max_attempts

\* C7 amended: an HTTP error status outside 502/503/504/524 (500) is the
\* exec result exit code 1 of that attempt; the command is not attempted
\* again and not sent over SSH, and ctx.run fails reporting exit code 1.
C7_NoRetryOn500 ==
    \A i \in 1..Len(httpLog) :
        (httpLog[i].kind = "HTTPError" /\ httpLog[i].code \notin {502, 503, 504, 524}) =>
            /\ i = attempts
            /\ via = "http"
            /\ xpc \in {"result", "done"}
            /\ result = CompletedProcess(1)
            /\ xpc = "done" => outcome = [kind |-> "TaskFailed", code |-> 1]

\* HTTP answered 500 on the first attempt and ctx.run failed right away.
C7_Witness ==
    /\ xpc = "done"
    /\ attempts = 1
    /\ httpLog[1].kind = "HTTPError" /\ httpLog[1].code = 500
    /\ outcome = [kind |-> "TaskFailed", code |-> 1]

\* C8: a command that exceeded its timeout, on either transport, ends
\* ctx.run as a non-zero exit reporting exit code 124.
C8_TimeoutIsExit124 ==
    (xpc = "done" /\ HttpTried /\
        \/ via = "http" /\ CurHttp.kind = "stream" /\ CurHttp.end = "TimeoutError"
        \/ via = "ssh" /\ sshLog[Len(sshLog)].kind = "TimeoutExpired")
        => outcome = [kind |-> "TaskFailed", code |-> 124]

\* C9: ctx.run returns normally only on a result with exit code 0; a result
\* with a non-zero exit code ends ctx.run in the task-failed error carrying
\* that code (whichever transport produced it), and once such a result is
\* held no further request is issued for the command.
C9_NonZeroExitRaisesOnce ==
    /\ [](/\ outcome.kind = "returned" => ~result.isNone /\ result.returncode = 0
          /\ (xpc = "done" /\ ~result.isNone /\ result.returncode # 0) =>
                outcome = [kind |-> "TaskFailed", code |-> result.returncode])
    /\ [][(~result.isNone /\ result.returncode # 0) =>
            /\ result' = result
            /\ httpSends' = httpSends
            /\ sshSends' = sshSends
            /\ attempts' = attempts]_vars

\* pct exec answered with a non-zero exit after HTTP exec was unavailable.
C9_Witness ==
    /\ xpc = "done"
    /\ via = "ssh"
    /\ httpSends = 1
    /\ result = CompletedProcess(2)
    /\ outcome = [kind |-> "TaskFailed", code |-> 2]

\* C10: an HTTP exec stream that ends without an exit or error event and
\* without a connection error is the exec result exit code 0, and ctx.run
\* returns normally for that command.
C10_NoExitEventIsSuccess ==
    (HttpTried /\ CurHttp.kind = "stream" /\ CurHttp.end = "eof"
        /\ \A i \in 1..Len(events) : events[i].type \notin {"exit", "error"}) =>
            /\ xpc \in {"result", "done"}
            /\ result = CompletedProcess(0)
            /\ xpc = "done" => outcome.kind = "returned"

\* A stream of output events only ended and ctx.run returned.
C10_Witness ==
    /\ xpc = "done"
    /\ HttpTried /\ CurHttp.kind = "stream" /\ CurHttp.end = "eof"
    /\ Len(events) > 0
    /\ \A i \in 1..Len(events) : events[i].type \in {"stdout", "stderr"}
    /\ outcome.kind = "returned"

(***************************************************************************)
(* Properties of the orchestrator's failure handling (checked under        *)
(* SpecOrch)                                                               *)
(***************************************************************************)

\* The manifest file lists a version with this templateVmid under this preset.
HasEntry(file, preset_id, template_vmid) ==
    \E i \in 1..Len(file.presets) :
        /\ file.presets[i].presetId = preset_id
        /\ \E j \in 1..Len(file.presets[i].versions) :
                file.presets[i].versions[j].templateVmid = template_vmid

\* A provision_and_snapshot run ended because provisioning a preset raised.
RunFailed == opc = "exited" /\ raised \in ExceptionClasses

\* C11: when provisioning preset k fails after presets 1..k-1 of the run were
\* templatized, the manifest file after the run holds the new version entries
\* of presets 1..k-1 and no new entry for preset k.
C11_PartialSuccessPersisted ==
    RunFailed =>
        /\ \A k \in 1..Len(results) :
                HasEntry(manifest_file, results[k].preset.preset_id, results[k].template_vmid)
        /\ call.new_vmid # 0 =>
                ~HasEntry(manifest_file, preset_plans[index].preset_id, call.new_vmid)

\* C12: when provisioning a preset fails with a task, verification or provider
\* error, every later preset of the ordered preset list is still attempted:
\* at the end of such a run a provision_and_create_template call was made for
\* every preset.
C12_LaterPresetsStillAttempted ==
    (opc = "exited" /\ raised \in {"TaskError", "VerificationError", "ProviderError"}) =>
        \A k \in 1..Len(preset_plans) : \E c \in 1..Len(calls) : calls[c].preset = k

\* C13: after a failure inside the preset loop, with cleanup_on_failure a
\* delete request was issued for every workspace cloned in the run (also for
\* one whose shutdown request failed), and without it no delete request was
\* issued.
C13_CleanupDeletesEveryClone ==
    RunFailed =>
        IF args.cleanup_on_failure
        THEN \A k \in 1..Len(run_created_containers) :
                \E d \in 1..Len(deleteLog) : deleteLog[d] = run_created_containers[k]
        ELSE deleteLog = <<>>

\* Position of a VMID in created_containers (VMIDs of one run are distinct).
CreatedAt(vmid) ==
    CHOOSE k \in 1..Len(run_created_containers) : run_created_containers[k] = vmid

\* C14: failure cleanup destroys the workspaces of the run in reverse order of
\* creation: of two delete requests, the earlier one is for the workspace
\* cloned later.
C14_CleanupInReverseOrder ==
    \A a \in 1..Len(deleteLog), b \in 1..Len(deleteLog) :
        a < b => CreatedAt(deleteLog[a]) > CreatedAt(deleteLog[b])

\* C15: when the caller aborts the run (SIGINT, cancellation of the main
\* coroutine) while a workspace of the run exists and cleanup_on_failure is
\* set, no further provisioning step of the run is taken and the cleanup of
\* every created workspace was attempted before the process exits.
C15_AbortRunsCleanup ==
    /\ raised = "CancelledError" => opc \in {"handler", "exited"}
    /\ (/\ opc = "exited"
        /\ raised = "CancelledError"
        /\ args.cleanup_on_failure
        /\ run_created_containers # <<>>) =>
            \A k \in 1..Len(run_created_containers) :
                \E d \in 1..Len(shutdownLog) : shutdownLog[d].vmid = run_created_containers[k]

(***************************************************************************)
(* Properties of the preset chaining (checked under SpecOrch)              *)
(***************************************************************************)

\* C16: the first preset is cloned from the base template with the task graph
\* run; a later preset is cloned from the template made for the preset just
\* before it, with the task graph skipped, exactly when its disk_size_mib is
\* at least that preset's disk_size_mib, and else from the base template with
\* the task graph run.  The graph runs only in calls with run_tasks, and has
\* run in every such call that produced a template.
C16_ChainFromPrecedingTemplate ==
    \A c \in 1..Len(calls) :
        LET k == calls[c].preset
        IN  /\ k = c
            /\ IF k > 1 /\ preset_plans[k].disk_size_mib >= preset_plans[k - 1].disk_size_mib
               THEN /\ calls[c].source_vmid = results[k - 1].template_vmid
                    /\ calls[c].source_vmid # DEFAULT_TEMPLATE_VMID
                    /\ ~calls[c].run_tasks
               ELSE /\ calls[c].source_vmid = DEFAULT_TEMPLATE_VMID
                    /\ calls[c].run_tasks
            /\ calls[c].graph_ran => calls[c].run_tasks
            /\ c <= Len(results) => calls[c].graph_ran = calls[c].run_tasks

\* Both presets were templatized, the second from the first one's template
\* (equal disk sizes) without running the task graph.
C16_Witness ==
    /\ Len(results) = 2
    /\ preset_plans[2].disk_size_mib = preset_plans[1].disk_size_mib
    /\ calls[2].source_vmid = results[1].template_vmid
    /\ calls[1].graph_ran
    /\ ~calls[2].graph_ran

(***************************************************************************)
(* Properties of the manifest (checked under SpecOrch)                     *)
(***************************************************************************)

\* The versions list the file holds for a presetId, <<>> when it has no entry.
VersionsOf(file, preset_id) ==
    IF FindPreset(file.presets, preset_id) = 0 THEN <<>>
    ELSE file.presets[FindPreset(file.presets, preset_id)].versions

\* Every version entry of the file was written by a provision_and_snapshot run
\* of this behaviour: the manifest started empty and no update-mode run added
\* to it.
OnlyFullRuns ==
    /\ updateRuns = 0
    /\ \A i \in 1..Len(manifest_file.presets) :
            \A j \in 1..Len(manifest_file.presets[i].versions) :
                manifest_file.presets[i].versions[j].capturedAt >= 1

\* C17: starting from an empty manifest, after N successful orchestrator runs
\* every preset of those runs has exactly N version entries, numbered 1..N,
\* whatever the standard and boosted shapes are.
C17_NVersionsAfterNRuns ==
    (opc = "exited" /\ exit_status = "0" /\ OnlyFullRuns) =>
        \A k \in 1..Len(preset_plans) :
            LET versions == VersionsOf(manifest_file, preset_plans[k].preset_id)
            IN  /\ Len(versions) = okRuns
                /\ \A j \in 1..Len(versions) : versions[j].version = j

\* A version entry as _load_manifest hands it to the update: a missing
\* snapshotId was filled in, nothing else differs.
SameEntry(old, new) ==
    IF old.snapshotId = 0
    THEN new = [old EXCEPT !.snapshotId = new.snapshotId] /\ new.snapshotId \in SnapshotIds
    ELSE new = old

StrictlyIncreasing(versions) ==
    \A a \in 1..Len(versions), b \in 1..Len(versions) :
        a < b => versions[a].version < versions[b].version

\* What the updates of one step did to one versions list: the old entries are
\* kept in place, and each added entry follows them with the next number.
Extends(old, new) ==
    /\ Len(new) >= Len(old)
    /\ \A j \in 1..Len(old) : SameEntry(old[j], new[j])
    /\ \A j \in (Len(old) + 1)..Len(new) :
            new[j].version = (IF j = 1 THEN 1 ELSE MaxVersion(SubSeq(new, 1, j - 1)) + 1)
    /\ StrictlyIncreasing(new)

VersionCount(file) ==
    LET RECURSIVE Sum(_)
        Sum(i) == IF i = 0 THEN 0 ELSE Len(file.presets[i].versions) + Sum(i - 1)
    IN  Sum(Len(file.presets))

\* The number of manifest updates a step applies: one per result when the
\* preset loop ends, one in an update-mode run that found its preset.
UpdatesApplied ==
    IF opc = "loop" THEN Len(results) ELSE 1

\* C18: every manifest update (_update_manifest_with_template and
\* _add_version_to_preset) keeps each preset's versions list sorted with
\* strictly increasing version numbers, leaves every earlier version entry
\* present and unmodified, and adds exactly one new entry, whose version is
\* the previous maximum plus one (1 for an empty list) and which is the last
\* element of the list.
C18_UpdateAppendsNextVersion ==
    [][manifest_file' # manifest_file =>
        /\ \A i \in 1..Len(manifest_file.presets) :
                /\ i <= Len(manifest_file'.presets)
                /\ manifest_file'.presets[i].presetId = manifest_file.presets[i].presetId
        /\ \A i \in 1..Len(manifest_file'.presets) :
                Extends(VersionsOf(manifest_file, manifest_file'.presets[i].presetId),
                        manifest_file'.presets[i].versions)
        /\ VersionCount(manifest_file') = VersionCount(manifest_file) + UpdatesApplied]_vars

\* A full run and an update-mode run have both added to the same preset.
C18_Witness ==
    /\ okRuns = 1
    /\ updateRuns = 1
    /\ \E i \in 1..Len(manifest_file.presets) :
            /\ Len(manifest_file.presets[i].versions) >= 2
            /\ \E j \in 1..Len(manifest_file.presets[i].versions) :
                    manifest_file.presets[i].versions[j].capturedAt = 2

UniquePresetIds(presets) ==
    \A i \in 1..Len(presets), j \in 1..Len(presets) :
        i # j => presets[i].presetId # presets[j].presetId

\* C19: the manifest never holds two preset entries with the same presetId,
\* on disk or in memory; after a completed run every result sits as a version
\* of the one entry that carries its presetId; and shapes with the same vcpus
\* and the same whole GiB of memory and disk have the same presetId.
C19_OnePresetEntryPerId ==
    /\ UniquePresetIds(manifest_file.presets)
    /\ UniquePresetIds(manifest)
    /\ (opc = "exited" /\ exit_status = "0") =>
            \A k \in 1..Len(results) :
                /\ Cardinality({i \in 1..Len(manifest_file.presets) :
                        manifest_file.presets[i].presetId = results[k].preset.preset_id}) = 1
                /\ HasEntry(manifest_file, results[k].preset.preset_id, results[k].template_vmid)
    /\ \A s1 \in StandardShapes \cup BoostedShapes, s2 \in StandardShapes \cup BoostedShapes :
            (/\ s1.vcpus = s2.vcpus
             /\ s1.memory_mib \div 1024 = s2.memory_mib \div 1024
             /\ s1.disk_size_mib \div 1024 = s2.disk_size_mib \div 1024) =>
                TemplatePresetPlan("", s1).preset_id = TemplatePresetPlan("", s2).preset_id

\* A second completed run found the preset entries of the first one and
\* added its versions to them.
C19_Witness ==
    /\ okRuns = 2
    /\ opc = "exited"
    /\ exit_status = "0"
    /\ Len(results) = 2
    /\ \A i \in 1..Len(manifest_file.presets) : Len(manifest_file.presets[i].versions) >= 2

\* C20: no two version entries of the manifest document, in one preset or in
\* two, carry the same snapshotId.
C20_SnapshotIdsUnique ==
    \A i \in 1..Len(manifest_file.presets), k \in 1..Len(manifest_file.presets) :
        \A j \in 1..Len(manifest_file.presets[i].versions),
           l \in 1..Len(manifest_file.presets[k].versions) :
            <<i, j>> # <<k, l>> =>
                manifest_file.presets[i].versions[j].snapshotId #
                    manifest_file.presets[k].versions[l].snapshotId

\* The workspace an update-mode run made into a template, 0 when the run is
\* not an update-mode run.
UpdateTemplate == IF call.preset = 0 THEN call.new_vmid ELSE 0

\* C21: a run that finds a manifest file that is not JSON, or whose
\* schemaVersion is not the current one, ends with an error, leaves the file
\* as it was, and has created no template on the provider.
C21_CorruptManifestAbortsRun ==
    (/\ opc = "exited"
     /\ file_at_start.exists
     /\ ~file_at_start.parses \/
            file_at_start.schemaVersion # CURRENT_MANIFEST_SCHEMA_VERSION) =>
        /\ exit_status = "1"
        /\ manifest_file = file_at_start
        /\ results = <<>>
        /\ UpdateTemplate = 0

(***************************************************************************)
(* Properties of the manifest file (checked under SpecFile)                *)
(***************************************************************************)

\* C22: the manifest write is atomic: when the process stops during
\* _write_manifest, the file holds the complete previous content or the
\* complete new content, never an empty or partly written document.
C22_WriteIsAtomic ==
    fpc = "stopped" =>
        \/ path = before_write
        \/ path = [exists |-> TRUE, text |-> Dumps(written)]

\* C23: loading a file the engine wrote returns the document that was
\* written: same presets, same version entries, same field values, the key
\* unknown to the schema kept.
C23_LoadReturnsWhatWasWritten ==
    fpc = "reloaded" => mem = written

\* A legacy document was loaded, updated twice, written and loaded again.
C23_Witness ==
    /\ fpc = "reloaded"
    /\ written.extra = "x"
    /\ CountVersions(written.presets) = 3
    /\ Len(written.presets) = 2

(***************************************************************************)
(* Properties of one workspace's flow (checked under SpecProv)             *)
(***************************************************************************)

\* The flow skipped the start of the workspace: provision_and_create_template
\* with run_tasks false goes from the configuration straight to the conversion.
NeverStarted == mode = "full" /\ ~run_tasks

\* C24: on every path of the provisioning and update flows,
\* convert_to_template is requested for a workspace only when the workspace is
\* stopped (never started, or its shutdown task was awaited and ended OK) and
\* has no snapshots.
C24_ConvertOnlyStoppedWithoutSnapshots ==
    [][(convertRequested' /\ ~convertRequested) =>
            /\ ws = "stopped"
            /\ NeverStarted \/ shutdown_exit = "OK"
            /\ ~has_snapshots]_vars

\* C25 as stated: wait_for_container_ready returns only after the provider
\* reported the status "running" and an `echo ready` exec returned success,
\* whatever the transport configuration; after its timeout error no task is
\* run on the workspace.
C25_ReadyOnlyAfterEcho ==
    /\ wait_result = "returned" => container_running /\ echo_ok
    /\ wait_result = "TimeoutError" => ~graphRan /\ perr = "TimeoutError"

\* C25 amended: the `echo ready` exec is required only when the client has a
\* cf_domain (the HTTP exec transport); without one the wait returns on the
\* status "running" alone.
C25_ReadyAfterRunningAndEchoOverHttp ==
    /\ wait_result = "returned" =>
            /\ container_running
            /\ client_cf_domain => echo_ok
            /\ ~client_cf_domain => ~echo_ok
    /\ wait_result = "TimeoutError" => ~graphRan /\ perr = "TimeoutError"

C25_Witness ==
    /\ wait_result = "returned"
    /\ client_cf_domain
    /\ echo_ok
    /\ polls > 0
    /\ graphRan

(***************************************************************************)
(* Execs of concurrent tasks (checked under SpecGraph)                     *)
(***************************************************************************)

\* C26 as stated: at no time are two exec calls in flight against the
\* workspace: while one task's exec is outstanding no other task issues one.
C26_OneExecInFlight == Cardinality(inflight) <= 1

\* C26 amended: execs that are in flight at the same time belong to tasks of
\* one layer, the layer the runner is awaiting (or was awaiting when a task
\* raised), and no such task depends on another, directly or transitively.
C26_ConcurrentExecsWithinOneLayer ==
    inflight # {} =>
        /\ Len(layers) > 0
        /\ inflight \subseteq layers[Len(layers)]
        /\ \A n, m \in inflight : n # m => n \notin TransDeps(registry, m)

\* Two tasks of the second layer have execs outstanding at the same time.
C26_Witness ==
    /\ Cardinality(inflight) = 2
    /\ Len(layers) = 2
    /\ gpc = "gather"

(***************************************************************************)
(* Dependency cycles (checked under SpecGraph)                             *)
(***************************************************************************)

\* Task n lies on a dependency cycle.
OnCycle(reg, n) == n \in TransDeps(reg, n)

HasCycle(reg) == \E n \in DOMAIN reg : OnCycle(reg, n)

\* Task n lies on a cycle or depends, directly or transitively, on a task
\* that does.
BehindCycle(reg, n) ==
    \/ OnCycle(reg, n)
    \/ \E d \in TransDeps(reg, n) \cap DOMAIN reg : OnCycle(reg, d)

Named(names) == {names[i] : i \in 1..Len(names)}

\* The registry A.deps=[B], B.deps=[A].
TwoCycle == <<{2}, {1}>>

\* C30: a scheduling step with a non-empty remaining set and no task whose
\* dependencies are all completed raises the dependency-cycle error, and the
\* error's message names exactly the remaining tasks, each once, none of
\* which was ever started; for A.deps=[B], B.deps=[A] it names A and B.
C30_CycleErrorNamesRemaining ==
    /\ [](gpc = "cycle" =>
            /\ Named(unresolved) = remaining
            /\ Len(unresolved) = Cardinality(remaining)
            /\ remaining = {n \in DOMAIN registry : startCount[n] = 0}
            /\ remaining # {}
            /\ registry = TwoCycle => unresolved = <<1, 2>>)
    /\ [](gpc # "cycle" => unresolved = <<>>)
    /\ [][(/\ gpc = "loop"
           /\ remaining # {}
           /\ \A n \in remaining : ~(registry[n] \subseteq completed))
                => gpc' = "cycle"]_vars

\* The error after one task completed, naming the two tasks of the cycle.
C30_Witness ==
    /\ gpc = "cycle"
    /\ completed # {}
    /\ Len(unresolved) = 2

(***************************************************************************)
(* Properties of the upload-repo task (checked under SpecUpload)           *)
(***************************************************************************)

UploadEnded == upc \in {"done", "raised"}

\* The clone/fetch step failed for good: its last exec returned non-zero and
\* was not retried, or the exec itself raised.
CloneFailed == clone_outcome \in {"failed", "raised"}

\* C27: with git-diff mode enabled the upload task falls back to the full
\* upload (archive push, then extract) when there is no origin remote, HEAD
\* is detached, the upstream ref cannot be resolved or the remote clone/fetch
\* step failed after its retries; and when the git-diff path succeeded the
\* full archive is not uploaded.
C27_FallsBackToFullUpload ==
    (UploadEnded /\ use_diff) =>
        /\ (\/ ~repo.remote_url
            \/ ~repo.current_branch
            \/ ~repo.upstream_commit
            \/ CloneFailed) => (full_upload # <<>> /\ full_upload[1] = "push")
        /\ upc = "done" /\ Len(full_upload) = 2 => full_upload = <<"push", "extract">>
        /\ diff_success = "True" => full_upload = <<>>

(***************************************************************************)
(* Properties of http_push_file (checked under SpecPush)                   *)
(***************************************************************************)

\* C28: whenever http_push_file reports success the remote target holds
\* exactly the bytes of the local file, whatever the outcomes of the
\* individual execs were: the target was truncated first and every chunk of
\* the base64 text was appended once, in order.
C28_SuccessMeansSameBytes ==
    push_returned = "True" => remote_file = local_file

(***************************************************************************)
(* Properties of the registry and its rendering (checked under SpecReg)    *)
(***************************************************************************)

\* The nodes the rendering names, and whether it carries a cycle marker.
Shown(lines) == {lines[i].node : i \in 1..Len(lines)} \ {0}
HasCycleMarker(lines) == \E i \in 1..Len(lines) : lines[i].connector = "cycle"

\* C31: for any registry containing a dependency cycle the rendered text
\* shows the tasks of the cycle and a cycle marker at the first re-visit of a
\* task on the current path; for A.deps=[B], B.deps=[A] it shows A, B, A and
\* the marker.
C31_EveryCycleIsMarked ==
    (rpc = "formatted" /\ HasCycle(reg_tasks)) =>
        /\ HasCycleMarker(graph_lines)
        /\ \A n \in DOMAIN reg_tasks : OnCycle(reg_tasks, n) => n \in Shown(graph_lines)
        /\ reg_tasks = TwoCycle =>
                /\ Len(graph_lines) = 4
                /\ <<graph_lines[1].node, graph_lines[2].node, graph_lines[3].node>> = <<1, 2, 1>>
                /\ graph_lines[4].connector = "cycle"

\* C34: registering a name that is already in the registry raises and
\* leaves the registry unchanged (the first definition is kept);
\* registering a new name succeeds whatever its dependencies name, registered
\* or not, and changes no other entry.
C34_DuplicateNameRejected ==
    [][rpc' = "registering" =>
        IF last_name' \in DOMAIN reg_tasks
        THEN /\ reg_raised' = "ValueError"
             /\ reg_tasks' = reg_tasks
        ELSE /\ reg_raised' = "none"
             /\ DOMAIN reg_tasks' = DOMAIN reg_tasks \cup {last_name'}
             /\ \A n \in DOMAIN reg_tasks : reg_tasks'[n] = reg_tasks[n]]_vars

\* A duplicate was rejected in a registry that holds a forward reference.
C34_Witness ==
    /\ reg_raised = "ValueError"
    /\ \E n \in DOMAIN reg_tasks : ~(reg_tasks[n] \subseteq DOMAIN reg_tasks)
    /\ last_name \in DOMAIN reg_tasks

\* The names scheduled in the layers before layer i.
EarlierLayers(i) == UNION {layers[j] : j \in 1..(i - 1)}

\* The number of tasks on the longest dependency chain that ends in n (k
\* bounds the recursion; a valid registry has no chain longer than its size).
RECURSIVE ChainLength(_, _, _)
ChainLength(reg, n, k) ==
    IF k = 0 \/ reg[n] = {} THEN 1
    ELSE LET below == {ChainLength(reg, d, k - 1) : d \in reg[n]}
         IN 1 + CHOOSE m \in below : \A o \in below : o <= m

\* C32: every scheduled layer is exactly the set of the tasks not run in an
\* earlier layer whose dependencies were all run in earlier layers; in a
\* registry whose dependencies are all registered and acyclic a started task
\* is in the layer numbered by the length of its longest dependency chain;
\* the diamond runs as the layers [A], [B, C], [D]; the empty registry
\* completes with no layer, no error and no timing entry.
C32_LayersAreReadySets ==
    /\ \A i \in 1..Len(layers) :
            layers[i] = {n \in DOMAIN registry \ EarlierLayers(i) :
                            \A dep \in registry[n] : dep \in EarlierLayers(i)}
    /\ ValidRegistry(registry) =>
            \A n \in DOMAIN registry :
                startCount[n] > 0 =>
                    LET depth == ChainLength(registry, n, Cardinality(DOMAIN registry))
                    IN depth <= Len(layers) /\ n \in layers[depth]
    /\ registry = Diamond =>
            /\ Len(layers) <= 3
            /\ \A i \in 1..Len(layers) : layers[i] = <<{1}, {2, 3}, {4}>>[i]
            /\ gpc = "done" => Len(layers) = 3
    /\ registry = <<>> =>
            /\ gpc \in {"loop", "done"}
            /\ layers = <<>>
            /\ timings = {}

\* The diamond has run to completion in three layers, each with its timing
\* entry.
C32_Witness ==
    /\ registry = Diamond
    /\ gpc = "done"
    /\ layers = <<{1}, {2, 3}, {4}>>
    /\ TimingLabel("layer", {2, 3}) \in timings

\* Some registered task names a dependency that is not registered.
HasMissing(reg) == \E n \in DOMAIN reg : ~(reg[n] \subseteq DOMAIN reg)

\* Task n depends, directly or transitively, on a name that is not registered.
BehindMissing(reg, n) == ~(TransDeps(reg, n) \subseteq DOMAIN reg)

\* C35 as stated: with a dependency on an unregistered name the run ends in
\* the dependency error and in no other way, no task depending on the
\* missing name is started, every other task has been executed when the
\* error is raised, and the error names exactly the unexecuted tasks.
C35_MissingDependencyEndsInError ==
    HasMissing(registry) =>
        /\ gpc \notin {"done", "raised"}
        /\ \A n \in DOMAIN registry : BehindMissing(registry, n) => startCount[n] = 0
        /\ gpc = "cycle" =>
            /\ \A n \in DOMAIN registry : ~BehindMissing(registry, n) => status[n] = "ok"
            /\ Named(unresolved) = {n \in DOMAIN registry : startCount[n] = 0}

\* C35 amended: with a dependency on an unregistered name the run never
\* completes and no task depending on the missing name is ever started; when
\* the runner is back at the head of its loop with only tasks left that
\* depend on a missing name or on a dependency cycle, it raises the
\* dependency error; at that error every task that depends neither on a
\* missing name nor on a cycle has been executed, and the error names exactly
\* the unexecuted tasks.  (A task that raises ends the run in its own
\* exception instead.)
C35_MissingDependencyNeverStarted ==
    /\ [](HasMissing(registry) =>
            /\ gpc # "done"
            /\ \A n \in DOMAIN registry : BehindMissing(registry, n) => startCount[n] = 0
            /\ gpc = "cycle" =>
                /\ \A n \in DOMAIN registry :
                        (~BehindMissing(registry, n) /\ ~BehindCycle(registry, n))
                            => status[n] = "ok"
                /\ Named(unresolved) = {n \in DOMAIN registry : startCount[n] = 0}
                /\ Named(unresolved) = {n \in DOMAIN registry :
                        BehindMissing(registry, n) \/ BehindCycle(registry, n)})
    /\ [][(/\ HasMissing(registry)
           /\ gpc = "loop"
           /\ \A n \in remaining : BehindMissing(registry, n) \/ BehindCycle(registry, n))
                => gpc' = "cycle"]_vars

\* The dependency error was raised after a task that does not depend on the
\* missing name had been executed.
C35_Witness ==
    /\ HasMissing(registry)
    /\ ~HasCycle(registry)
    /\ gpc = "cycle"
    /\ \E n \in DOMAIN registry : status[n] = "ok"
    /\ unresolved # <<>>

\* C39: no step of a run changes the registry (its tasks and their
\* dependencies), whether the run completes, fails or ends in the dependency
\* error; and every run on the same registry object that completes has
\* started the body of every registered task once more.
C39_RunLeavesRegistryUnchanged ==
    /\ [][registry' = registry]_vars
    /\ [](gpc # "idle" =>
            /\ DOMAIN registry = DOMAIN executions
            /\ \A n \in DOMAIN executions :
                /\ executions[n] <= run_no
                /\ gpc = "done" => executions[n] = run_no)

\* A second run on the same registry has completed, in more than one layer.
C39_Witness ==
    /\ run_no = 2
    /\ gpc = "done"
    /\ Len(layers) >= 2
    /\ \A n \in DOMAIN registry : executions[n] = 2

\* C38: whenever the event stream read by http_exec contains an `error`
\* event and the exec result is the one http_exec returned, that result has
\* a non-zero exit code.
C38_ErrorEventMeansNonZero ==
    (/\ HttpTried
     /\ CurHttp.kind = "stream"
     /\ \E i \in 1..Len(events) : events[i].type = "error"
     /\ via = "http"
     /\ xpc \in {"result", "done"}
     /\ ~result.isNone) => result.returncode # 0

\* C33: in update mode the task graph is run on the registry chosen after the
\* four probes: the update registry exactly when every probe returned exit
\* code 0, the full registry as soon as one probe returned non-zero or
\* raised; no registry is chosen before the probes were made.
C33_UpdateRegistryIffAllProbesSucceed ==
    mode = "update" =>
        /\ graphRan => active_registry \in {"update", "full"}
        /\ active_registry = "update" <=> probe_seen = {"zero"}
        /\ active_registry = "full" <=> probe_seen \cap {"nonzero", "raised"} # {}
        /\ active_registry = "none" <=> probe_seen = {}
        /\ ppc \in {"clone", "start", "wait", "detect"} => active_registry = "none"

\* The full registry was run in update mode because a probe raised while the
\* others found their tool.
C33_Witness ==
    /\ mode = "update"
    /\ graphRan
    /\ active_registry = "full"
    /\ probe_seen = {"zero", "raised"}

\* C36: the runner has raised a task's failure only when every task of the
\* failing layer has finished, and once the failure cleanup has shut down and
\* deleted the workspace no exec or push_file call of a task is outstanding
\* against it and none is sent afterwards.
C36_NoCallInFlightAtCleanup ==
    /\ gpc = "raised" => \A n \in ready : status[n] # "running"
    /\ cleaned => inflight = {} /\ late_calls = {}

\* The templates the current run has made: the container cloned by each
\* provision_and_create_template call that returned its result, or the work
\* container of an update-mode run.
RunTemplates ==
    {calls[i].new_vmid : i \in 1..Len(results)}
    \cup (IF calls = <<>> /\ call.new_vmid # 0 /\ raised = "none" THEN {call.new_vmid} ELSE {})

\* C37: every templateVmid the run has added to the manifest file is a
\* template the run made, was not deleted by the run and exists on the
\* node; the file is changed by a run of the preset loop only when every
\* preset has its result; and a run that has entered the failure cleanup has
\* left the file as it found it.
C37_ManifestNamesOnlyLiveTemplates ==
    /\ \A v \in TemplateVmidsOf(manifest_file.presets) \ TemplateVmidsOf(file_at_start.presets) :
            /\ v \in RunTemplates
            /\ v \notin Named(deleteLog)
            /\ v \in used_vmids
    /\ manifest_file # file_at_start =>
            /\ raised = "none"
            /\ opc = "exited"
            /\ shutdownLog = <<>> /\ deleteLog = <<>>
            /\ calls # <<>> => Len(results) = Len(preset_plans)
    /\ (opc = "cleanup" \/ shutdownLog # <<>>) => manifest_file = file_at_start

\* A run has written both of its templates to the manifest file after an
\* earlier run failed and cleaned up.
C37_Witness ==
    /\ runs = 2
    /\ exit_status = "0"
    /\ Len(results) = 2
    /\ Cardinality(TemplateVmidsOf(manifest_file.presets)
                    \ TemplateVmidsOf(file_at_start.presets)) = 2

\* The positions of the presets with a version whose templateVmid is vmid.
Holders(presets, vmid) ==
    {i \in 1..Len(presets) :
        \E j \in 1..Len(presets[i].versions) : presets[i].versions[j].templateVmid = vmid}

\* The templateVmids of the versions of one preset entry, in order.
VmidsOfEntry(entry) == [j \in 1..Len(entry.versions) |-> entry.versions[j].templateVmid]

\* C40: a completed update-mode run whose source VMID is a templateVmid of
\* the manifest finds it in exactly one preset, writes the file, and the
\* written file has the same presets, that preset with one version more,
\* naming the new template, and every other preset with the versions it
\* had; a run whose source VMID is in no preset leaves the file as it was,
\* while the new template exists on the node.
C40_UpdateAppendsToSourcePreset ==
    [][(updateRuns' = updateRuns + 1) =>
        LET before == manifest_file.presets
            after == manifest_file'.presets
            holders == Holders(before, call'.source_vmid)
        IN  IF holders # {}
            THEN /\ Cardinality(holders) = 1
                 /\ manifest_file' # manifest_file
                 /\ manifest_file'.exists
                 /\ Len(after) = Len(before)
                 /\ \A i \in 1..Len(before) :
                        /\ after[i].presetId = before[i].presetId
                        /\ VmidsOfEntry(after[i]) =
                                IF i \in holders
                                THEN Append(VmidsOfEntry(before[i]), call'.new_vmid)
                                ELSE VmidsOfEntry(before[i])
            ELSE /\ manifest_file' = manifest_file
                 /\ call'.new_vmid \in used_vmids'
                 /\ call'.new_vmid \notin TemplateVmidsOf(after)]_vars

\* An update-mode run has added its template to the second of two presets.
C40_Witness ==
    /\ updateRuns = 1
    /\ exit_status = "0"
    /\ Len(manifest_file.presets) = 2
    /\ Len(manifest_file.presets[1].versions) = 1
    /\ Len(manifest_file.presets[2].versions) = 2
    /\ manifest_file.presets[2].versions[2].templateVmid = call.new_vmid

====
